---- MODULE Spec2Model ----
(***************************************************************************)
(* A model of attn's post store (src/post-db.ts): the PostDB class, its    *)
(* JSON document on disk, and the operations that read and mutate it; and  *)
(* of the feed capture loop (capturePostScreenshots of                     *)
(* src/social-post-gatherer.ts and scrollAndGatherPosts of the scrolling   *)
(* utilities) driving a page that renders a feed.                          *)
(*                                                                         *)
(* Text values (descriptions, paths, identifiers, ids) are sequences of    *)
(* one-character strings, so that slicing, sanitising and concatenation    *)
(* are computed as the code computes them.  A rating is <<>> for null and  *)
(* <<n>> for the number n.                                                 *)
(***************************************************************************)
EXTENDS Integers, Sequences, FiniteSets, TLC

VARIABLES
    data,   \* data[i]: the in-memory PostDBData of store instance i
    live,   \* the instances that have been constructed
    file,   \* the backing file: missing, unparsable, or a JSON document
    now,    \* the clock, in epoch milliseconds
    call,   \* the most recent call: [name, inst, args]
    ret,    \* what that call returned: [kind, val]
    categories, \* the categories file: per category its example lists
    run,    \* the capture run: its position and its local variables
    feed,   \* the browser page the run drives: selectors and rendered items
    trace   \* what the run did so far: waits, captured items, last step

vars == <<data, live, file, now, call, ret, categories, run, feed, trace>>

\* What no operation of the post store touches.
outside == <<categories, run, feed, trace>>

\* What no step of a capture run touches.
store == <<data, live, file, now, call, ret, categories>>

(***************************************************************************)
(* Bounds of the model.                                                    *)
(***************************************************************************)
MaxPosts == 2
MaxClock == 1
MaxSteps == 2
MaxWindowPosts == 4
MaxTarget == 4
MaxFiles == 2

(***************************************************************************)
(* Values.                                                                 *)
(***************************************************************************)
Undefined == <<"undefined-value">>
Null == <<>>
Num(n) == <<n>>
EmptyString == <<>>
\* The value undefined in a rating: apart from null and from every number.
UndefinedRating == <<0, 0>>

Truthy(s) == s # Undefined /\ s # EmptyString

Min(a, b) == IF a < b THEN a ELSE b
Max(a, b) == IF a > b THEN a ELSE b

Instances == {"A", "B"}

\* The arguments of addPost: description, screenshotPath, rating, platform,
\* originalPostId, platformUniqueId, contentHash, category.
Candidate(d, p, u, h) ==
    [description |-> d, screenshotPath |-> p, rating |-> Null,
     platform |-> IF u = Undefined THEN Undefined ELSE <<"T">>,
     originalPostId |-> Undefined, platformUniqueId |-> u,
     contentHash |-> h, category |-> <<"c">>]

\* Candidates of the deduplication runs: every combination of a present,
\* absent or empty identifier and fingerprint with two descriptions and paths
\* that are each shared by several candidates.
DedupCandidates ==
    {Candidate(<<"a">>, <<"p">>, <<"1">>, <<"h">>),
     Candidate(<<"b">>, <<"p">>, <<"1">>, <<"k">>),
     Candidate(<<"a">>, <<"p">>, <<"2">>, <<"h">>),
     Candidate(<<"a">>, <<"p">>, <<"2">>, Undefined),
     Candidate(<<"b">>, <<"q">>, Undefined, <<"h">>),
     Candidate(<<"a">>, <<"p">>, Undefined, <<"k">>),
     Candidate(<<"a">>, <<"p">>, EmptyString, EmptyString),
     Candidate(<<"a">>, <<"p">>, Undefined, Undefined),
     Candidate(<<"b">>, <<"p">>, Undefined, Undefined),
     Candidate(<<"a">>, <<"q">>, Undefined, Undefined)}

\* Candidates of the runs with failing writes and with two instances.
FewCandidates ==
    {Candidate(<<"a">>, <<"p">>, Undefined, Undefined),
     Candidate(<<"b">>, <<"q">>, <<"1">>, <<"h">>)}

\* Candidates of the navigation and persistence runs.
StoreCandidates ==
    {Candidate(<<"a">>, <<"p">>, Undefined, Undefined),
     Candidate(<<"a", "!">>, <<"p">>, Undefined, <<"h">>),
     [Candidate(<<"b">>, <<"q">>, <<"1">>, EmptyString) EXCEPT !.rating = Num(5)]}

\* Candidates of the runs about ids: two posts that are not duplicates of
\* each other (their descriptions differ) but differ only in a character
\* that the id replaces, and one with a platform identifier.
IdCandidates ==
    {Candidate(<<"a", "!">>, <<"p">>, Undefined, Undefined),
     Candidate(<<"a", "?">>, <<"p">>, Undefined, Undefined),
     Candidate(<<"b">>, <<"q">>, <<"1">>, <<"h">>)}

Ratings == {Num(1)}
Steps == (-1) .. MaxSteps
Indexes == (-1) .. MaxPosts
PageSizes == (-1) .. (MaxPosts + 1)
Offsets == (-1) .. 1
UnknownId == <<"?">>

\* The pointer values the model follows: moves with negative steps are cut
\* off beyond this range.
InModelRange(n) == n >= -1 /\ n <= MaxPosts

(***************************************************************************)
(* Strings.                                                                *)
(***************************************************************************)
AlphaNum ==
    {"a", "b", "c", "d", "e", "f", "g", "h", "i", "j", "k", "l", "m",
     "n", "o", "p", "q", "r", "s", "t", "u", "v", "w", "x", "y", "z",
     "A", "B", "C", "D", "E", "F", "G", "H", "I", "J", "K", "L", "M",
     "N", "O", "P", "Q", "R", "S", "T", "U", "V", "W", "X", "Y", "Z",
     "0", "1", "2", "3", "4", "5", "6", "7", "8", "9"}

UpperToLower ==
    [c \in {"A", "B", "C", "D", "E", "F", "G", "H", "I", "J", "K", "L", "M",
            "N", "O", "P", "Q", "R", "S", "T", "U", "V", "W", "X", "Y", "Z"} |->
        CASE c = "A" -> "a" [] c = "B" -> "b" [] c = "C" -> "c" [] c = "D" -> "d"
          [] c = "E" -> "e" [] c = "F" -> "f" [] c = "G" -> "g" [] c = "H" -> "h"
          [] c = "I" -> "i" [] c = "J" -> "j" [] c = "K" -> "k" [] c = "L" -> "l"
          [] c = "M" -> "m" [] c = "N" -> "n" [] c = "O" -> "o" [] c = "P" -> "p"
          [] c = "Q" -> "q" [] c = "R" -> "r" [] c = "S" -> "s" [] c = "T" -> "t"
          [] c = "U" -> "u" [] c = "V" -> "v" [] c = "W" -> "w" [] c = "X" -> "x"
          [] c = "Y" -> "y" [] c = "Z" -> "z"]

toLowerCase(s) ==
    [k \in 1 .. Len(s) |-> IF s[k] \in DOMAIN UpperToLower THEN UpperToLower[s[k]] ELSE s[k]]

\* s.slice(0, n) for n >= 0
SlicePrefix(s, n) == SubSeq(s, 1, Min(n, Len(s)))

\* s.replace(/[^a-zA-Z0-9]/g, '_')
Sanitize(s) == [k \in 1 .. Len(s) |-> IF s[k] \in AlphaNum THEN s[k] ELSE "_"]

DigitChars == <<"0", "1", "2", "3", "4", "5", "6", "7", "8", "9">>

RECURSIVE Decimal(_)
Decimal(n) == IF n < 10 THEN <<DigitChars[n + 1]>>
              ELSE Decimal(n \div 10) \o <<DigitChars[(n % 10) + 1]>>

DescriptionSliceLen == 100
IdSlugLen == 50

generatePostId(description, screenshotPath, platform, platformUniqueId, t) ==
    IF Truthy(platformUniqueId) /\ Truthy(platform)
    THEN toLowerCase(platform) \o <<"_">> \o platformUniqueId \o <<"_">> \o Decimal(t)
    ELSE LET content == SlicePrefix(description, DescriptionSliceLen) \o <<"_">>
                        \o screenshotPath \o <<"_">>
                        \o (IF Truthy(platform) THEN platform
                            ELSE <<"u", "n", "k", "n", "o", "w", "n">>)
         IN  SlicePrefix(Sanitize(content), IdSlugLen) \o <<"_">> \o Decimal(t)

\* The n-th post of a caller that adds numbered posts, as the pagination
\* tests do; the third is of another category than the rest.
WindowCandidate(n) ==
    [Candidate(<<"n">> \o Decimal(n), <<"p">>, Undefined, Undefined)
        EXCEPT !.category = IF n = 3 THEN <<"d">> ELSE <<"c">>]

\* Arguments of the queries.
WindowPageSizes == 1 .. (MaxWindowPosts + 1)
WindowIndexes == 0 .. MaxWindowPosts
WindowSteps == {-1, 1}
Categories == {<<"c">>, <<"d">>}
CategoryPageSizes == 1 .. 3
Pages == 0 .. 2
Platforms == {<<"T">>}
QueryRatings == {Num(5)}

\* Candidates of the statistics runs: with and without platform, category
\* and rating.
StatsCandidates ==
    {[Candidate(<<"a">>, <<"p">>, Undefined, Undefined) EXCEPT !.category = Undefined],
     [Candidate(<<"b">>, <<"q">>, <<"1">>, Undefined) EXCEPT !.rating = Num(5)],
     [Candidate(<<"c">>, <<"r">>, <<"2">>, Undefined) EXCEPT !.category = <<"d">>]}

\* Ratings of the statistics runs: thumbs up, thumbs down and none.
StatsRatings == {Num(1), Num(-1), Null}

(***************************************************************************)
(* The persisted document: JSON.stringify(this.data) and its parse.        *)
(***************************************************************************)
RequiredKeys == {"id", "description", "timestamp", "rating", "screenshotPath"}
OptionalKeys == {"platform", "originalPostId", "platformUniqueId", "contentHash", "category"}
PostKeys == RequiredKeys \cup OptionalKeys

\* Date.prototype.toJSON: the ISO-8601 string of the instant
toISOString(t) == [iso |-> t]
\* new Date(isoString)
parseDate(j) == j.iso

\* JSON.stringify of a Post: keys whose value is undefined are left out and
\* the timestamp is written as its ISO string.
StringifyPost(post) ==
    [k \in {x \in RequiredKeys : x = "rating" => post[x] # UndefinedRating}
            \cup {x \in OptionalKeys : post[x] # Undefined} |->
        IF k = "timestamp" THEN toISOString(post[k]) ELSE post[k]]

Stringify(d) ==
    [posts |-> [k \in 1 .. Len(d.posts) |-> StringifyPost(d.posts[k])],
     currentIndex |-> d.currentIndex,
     version |-> d.version]

\* A parsed post with its timestamp revived; reading a key the document
\* does not hold gives undefined.
RevivePost(j) ==
    [k \in PostKeys |->
        IF k \notin DOMAIN j THEN (IF k = "rating" THEN UndefinedRating ELSE Undefined)
        ELSE IF k = "timestamp" THEN parseDate(j[k]) ELSE j[k]]

Version == <<"1", ".", "0", ".", "0">>

EmptyData == [posts |-> <<>>, currentIndex |-> 0, version |-> Version]

FileMissing == [kind |-> "missing", doc |-> <<>>]
FileCorrupt == [kind |-> "corrupt", doc |-> <<>>]
\* The text "null": it parses, and reading parsedData.posts throws.
FileNull == [kind |-> "null", doc |-> <<>>]
FileDoc(d) == [kind |-> "doc", doc |-> d]

\* ParsedData with the pointer not restored from the document.
ParsedData_NoPointer(doc) ==
    [posts |-> [k \in 1 .. Len(doc.posts) |-> RevivePost(doc.posts[k])],
     currentIndex |-> 0,
     version |-> doc.version]

\* loadDB's result for a document that parses
ParsedData(doc) ==
    [posts |-> [k \in 1 .. Len(doc.posts) |-> RevivePost(doc.posts[k])],
     currentIndex |-> IF doc.currentIndex # 0 THEN doc.currentIndex ELSE 0,
     version |-> IF Truthy(doc.version) THEN doc.version ELSE Version]

(***************************************************************************)
(* Deduplication.                                                          *)
(***************************************************************************)
\* postExists without the platformUniqueId tier.
postExists_NoIdTier(posts, description, screenshotPath, platformUniqueId, contentHash) ==
    \E k \in 1 .. Len(posts) :
        LET post == posts[k] IN
        IF Truthy(contentHash) /\ Truthy(post.contentHash)
        THEN post.contentHash = contentHash
        ELSE post.description = description /\ post.screenshotPath = screenshotPath

\* postExists with the tier chosen from the candidate alone, for all posts.
postExists_CandidateTier(posts, description, screenshotPath, platformUniqueId, contentHash) ==
    \E k \in 1 .. Len(posts) :
        LET post == posts[k] IN
        IF Truthy(platformUniqueId)
        THEN post.platformUniqueId = platformUniqueId
        ELSE IF Truthy(contentHash)
        THEN post.contentHash = contentHash
        ELSE post.description = description /\ post.screenshotPath = screenshotPath

\* postExists without the (description, screenshotPath) fallback.
postExists_NoFallback(posts, description, screenshotPath, platformUniqueId, contentHash) ==
    \E k \in 1 .. Len(posts) :
        LET post == posts[k] IN
        IF Truthy(platformUniqueId) /\ Truthy(post.platformUniqueId)
        THEN post.platformUniqueId = platformUniqueId
        ELSE IF Truthy(contentHash) /\ Truthy(post.contentHash)
        THEN post.contentHash = contentHash
        ELSE FALSE

postExists(posts, description, screenshotPath, platformUniqueId, contentHash) ==
    \E k \in 1 .. Len(posts) :
        LET post == posts[k] IN
        IF Truthy(platformUniqueId) /\ Truthy(post.platformUniqueId)
        THEN post.platformUniqueId = platformUniqueId
        ELSE IF Truthy(contentHash) /\ Truthy(post.contentHash)
        THEN post.contentHash = contentHash
        ELSE post.description = description /\ post.screenshotPath = screenshotPath

NewPost(c, t) ==
    [id |-> generatePostId(c.description, c.screenshotPath, c.platform, c.platformUniqueId, t),
     description |-> c.description,
     timestamp |-> t,
     rating |-> c.rating,
     platform |-> c.platform,
     originalPostId |-> c.originalPostId,
     platformUniqueId |-> c.platformUniqueId,
     contentHash |-> c.contentHash,
     screenshotPath |-> c.screenshotPath,
     category |-> c.category]

(***************************************************************************)
(* Sequences of posts.                                                     *)
(***************************************************************************)
\* posts.findIndex(p => p.id === postId), counted from 1; 0 when there is none
FindIndex(posts, postId) ==
    IF \E k \in 1 .. Len(posts) : posts[k].id = postId
    THEN CHOOSE k \in 1 .. Len(posts) :
             /\ posts[k].id = postId
             /\ \A j \in 1 .. (k - 1) : posts[j].id # postId
    ELSE 0

\* posts.splice(k - 1, 1)
Splice(posts, k) == SubSeq(posts, 1, k - 1) \o SubSeq(posts, k + 1, Len(posts))

\* Array.prototype.slice(begin, end), a negative index counting from the end
ArraySlice(s, begin, end) ==
    LET from == IF begin < 0 THEN Max(Len(s) + begin, 0) ELSE Min(begin, Len(s))
        to == IF end < 0 THEN Max(Len(s) + end, 0) ELSE Min(end, Len(s))
    IN  SubSeq(s, from + 1, to)

\* Where a stable sort by timestamp descending puts post p among the already
\* sorted s: after every post that is not older.
RECURSIVE InsertByTimeDesc(_, _)
InsertByTimeDesc(s, p) ==
    IF s = <<>> THEN <<p>>
    ELSE IF Head(s).timestamp >= p.timestamp
         THEN <<Head(s)>> \o InsertByTimeDesc(Tail(s), p)
         ELSE <<p>> \o s

\* .sort((a, b) => b.timestamp.getTime() - a.timestamp.getTime())
RECURSIVE SortByTimeDesc(_)
SortByTimeDesc(s) ==
    IF s = <<>> THEN <<>>
    ELSE InsertByTimeDesc(SortByTimeDesc(SubSeq(s, 1, Len(s) - 1)), s[Len(s)])

(***************************************************************************)
(* Windowed pagination around the pointer.                                 *)
(***************************************************************************)
\* getPosts with hasMore taken from the pointer instead of the window's end.
getPosts_HasMoreFromPointer(d, pageSize, offsetFromCurrent) ==
    LET totalPosts == Len(d.posts) IN
    IF totalPosts = 0
    THEN [posts |-> <<>>, currentIndex |-> 0, totalPosts |-> 0,
          hasMore |-> FALSE, hasPrevious |-> FALSE]
    ELSE LET targetIndex == Max(0, Min(d.currentIndex + offsetFromCurrent, totalPosts - 1))
             halfPage == pageSize \div 2
             startIndex == Max(0, targetIndex - halfPage)
             adjustedStartIndex == Max(0, Min(startIndex, totalPosts - pageSize))
             actualEndIndex == Min(totalPosts, adjustedStartIndex + pageSize)
         IN  [posts |-> SortByTimeDesc(ArraySlice(d.posts, adjustedStartIndex, actualEndIndex)),
              currentIndex |-> d.currentIndex,
              totalPosts |-> totalPosts,
              hasMore |-> d.currentIndex < totalPosts - 1,
              hasPrevious |-> adjustedStartIndex > 0]

\* getPosts returning the window before it is moved back from the end.
getPosts_NoReclamp(d, pageSize, offsetFromCurrent) ==
    LET totalPosts == Len(d.posts) IN
    IF totalPosts = 0
    THEN [posts |-> <<>>, currentIndex |-> 0, totalPosts |-> 0,
          hasMore |-> FALSE, hasPrevious |-> FALSE]
    ELSE LET targetIndex == Max(0, Min(d.currentIndex + offsetFromCurrent, totalPosts - 1))
             halfPage == pageSize \div 2
             startIndex == Max(0, targetIndex - halfPage)
             endIndex == Min(totalPosts, startIndex + pageSize)
         IN  [posts |-> SortByTimeDesc(ArraySlice(d.posts, startIndex, endIndex)),
              currentIndex |-> d.currentIndex,
              totalPosts |-> totalPosts,
              hasMore |-> endIndex < totalPosts,
              hasPrevious |-> startIndex > 0]

\* getPosts with hasPrevious taken from the pointer instead of the window's
\* start.
getPosts_HasPreviousFromPointer(d, pageSize, offsetFromCurrent) ==
    LET totalPosts == Len(d.posts) IN
    IF totalPosts = 0
    THEN [posts |-> <<>>, currentIndex |-> 0, totalPosts |-> 0,
          hasMore |-> FALSE, hasPrevious |-> FALSE]
    ELSE LET targetIndex == Max(0, Min(d.currentIndex + offsetFromCurrent, totalPosts - 1))
             halfPage == pageSize \div 2
             startIndex == Max(0, targetIndex - halfPage)
             adjustedStartIndex == Max(0, Min(startIndex, totalPosts - pageSize))
             actualEndIndex == Min(totalPosts, adjustedStartIndex + pageSize)
         IN  [posts |-> SortByTimeDesc(ArraySlice(d.posts, adjustedStartIndex, actualEndIndex)),
              currentIndex |-> d.currentIndex,
              totalPosts |-> totalPosts,
              hasMore |-> actualEndIndex < totalPosts,
              hasPrevious |-> d.currentIndex > 0]

\* getPosts returning the page that ends just before the target index.
getPosts_PageBeforeTarget(d, pageSize, offsetFromCurrent) ==
    LET totalPosts == Len(d.posts) IN
    IF totalPosts = 0
    THEN [posts |-> <<>>, currentIndex |-> 0, totalPosts |-> 0,
          hasMore |-> FALSE, hasPrevious |-> FALSE]
    ELSE LET targetIndex == Max(0, Min(d.currentIndex + offsetFromCurrent, totalPosts - 1))
             startIndex == Max(0, targetIndex - pageSize)
             adjustedStartIndex == Max(0, Min(startIndex, totalPosts - pageSize))
             actualEndIndex == Min(totalPosts, adjustedStartIndex + pageSize)
         IN  [posts |-> SortByTimeDesc(ArraySlice(d.posts, adjustedStartIndex, actualEndIndex)),
              currentIndex |-> d.currentIndex,
              totalPosts |-> totalPosts,
              hasMore |-> actualEndIndex < totalPosts,
              hasPrevious |-> adjustedStartIndex > 0]

getPosts(d, pageSize, offsetFromCurrent) ==
    LET totalPosts == Len(d.posts) IN
    IF totalPosts = 0
    THEN [posts |-> <<>>, currentIndex |-> 0, totalPosts |-> 0,
          hasMore |-> FALSE, hasPrevious |-> FALSE]
    ELSE LET targetIndex == Max(0, Min(d.currentIndex + offsetFromCurrent, totalPosts - 1))
             halfPage == pageSize \div 2
             startIndex == Max(0, targetIndex - halfPage)
             adjustedStartIndex == Max(0, Min(startIndex, totalPosts - pageSize))
             actualEndIndex == Min(totalPosts, adjustedStartIndex + pageSize)
         IN  [posts |-> SortByTimeDesc(ArraySlice(d.posts, adjustedStartIndex, actualEndIndex)),
              currentIndex |-> d.currentIndex,
              totalPosts |-> totalPosts,
              hasMore |-> actualEndIndex < totalPosts,
              hasPrevious |-> adjustedStartIndex > 0]

(***************************************************************************)
(* Queries.                                                                *)
(***************************************************************************)
\* this.data.posts.find((p) => p.id === postId) || null
getPost(d, postId) ==
    LET k == FindIndex(d.posts, postId) IN
    IF k = 0 THEN Null ELSE d.posts[k]

getAllPosts(d) == SortByTimeDesc(d.posts)

getPostsByRating(d, rating) ==
    SortByTimeDesc(SelectSeq(d.posts, LAMBDA p : p.rating = rating))

getPostsByPlatform(d, platform) ==
    SortByTimeDesc(SelectSeq(d.posts, LAMBDA p : p.platform = platform))

getPostsByCategory(d, category) ==
    SortByTimeDesc(SelectSeq(d.posts, LAMBDA p : p.category = category))

\* getPostsByCategory_Paginated cutting the page out of the matching posts
\* in stored order and sorting the page afterwards.
getPostsByCategory_Paginated_SliceFirst(d, category, pageSize, page) ==
    LET filteredPosts == SelectSeq(d.posts, LAMBDA p : p.category = category)
        totalPosts == Len(filteredPosts)
        startIndex == page * pageSize
        endIndex == Min(startIndex + pageSize, totalPosts)
    IN  [posts |-> SortByTimeDesc(ArraySlice(filteredPosts, startIndex, endIndex)),
         currentIndex |-> d.currentIndex,
         totalPosts |-> totalPosts,
         hasMore |-> endIndex < totalPosts,
         hasPrevious |-> page > 0]

\* getPostsByCategory_Paginated starting its first page at the pointer.
getPostsByCategory_Paginated_FromPointer(d, category, pageSize, page) ==
    LET filteredPosts == SortByTimeDesc(SelectSeq(d.posts, LAMBDA p : p.category = category))
        totalPosts == Len(filteredPosts)
        startIndex == Max(0, d.currentIndex) + page * pageSize
        endIndex == Min(startIndex + pageSize, totalPosts)
    IN  [posts |-> ArraySlice(filteredPosts, startIndex, endIndex),
         currentIndex |-> d.currentIndex,
         totalPosts |-> totalPosts,
         hasMore |-> endIndex < totalPosts,
         hasPrevious |-> page > 0]

getPostsByCategory_Paginated(d, category, pageSize, page) ==
    LET filteredPosts == SortByTimeDesc(SelectSeq(d.posts, LAMBDA p : p.category = category))
        totalPosts == Len(filteredPosts)
        startIndex == page * pageSize
        endIndex == Min(startIndex + pageSize, totalPosts)
    IN  [posts |-> ArraySlice(filteredPosts, startIndex, endIndex),
         currentIndex |-> d.currentIndex,
         totalPosts |-> totalPosts,
         hasMore |-> endIndex < totalPosts,
         hasPrevious |-> page > 0]

(***************************************************************************)
(* Statistics.                                                             *)
(***************************************************************************)
\* Number.prototype.toString of an integer
NumberToString(n) == IF n < 0 THEN <<"-">> \o Decimal(-n) ELSE Decimal(n)

\* breakdown[key] = (breakdown[key] || 0) + 1
Tally(breakdown, key) ==
    IF key \in DOMAIN breakdown
    THEN [breakdown EXCEPT ![key] = @ + 1]
    ELSE [k \in DOMAIN breakdown \cup {key} |-> IF k = key THEN 1 ELSE breakdown[k]]

EmptyBreakdown == [k \in {} |-> 0]

Unknown == <<"u", "n", "k", "n", "o", "w", "n">>

\* The three breakdowns after the forEach over the first n posts.
RECURSIVE Breakdowns(_, _)
Breakdowns(posts, n) ==
    IF n = 0
    THEN [platformBreakdown |-> EmptyBreakdown,
          ratingBreakdown |-> EmptyBreakdown,
          categoryBreakdown |-> EmptyBreakdown]
    ELSE LET b == Breakdowns(posts, n - 1)
             post == posts[n]
         IN  [platformBreakdown |->
                  Tally(b.platformBreakdown,
                        IF Truthy(post.platform) THEN post.platform ELSE Unknown),
              ratingBreakdown |->
                  IF post.rating # Null
                  THEN Tally(b.ratingBreakdown, NumberToString(post.rating[1]))
                  ELSE b.ratingBreakdown,
              categoryBreakdown |->
                  IF Truthy(post.category)
                  THEN Tally(b.categoryBreakdown, post.category)
                  ELSE b.categoryBreakdown]

\* getStats filing the posts without a category under 'unknown', as it does
\* the posts without a platform.
getStats_UnknownCategory(d) ==
    LET totalPosts == Len(d.posts)
        ratedPosts == Len(SelectSeq(d.posts, LAMBDA p : p.rating # Null))
        b == Breakdowns(d.posts, totalPosts)
        uncategorised == Len(SelectSeq(d.posts, LAMBDA p : ~Truthy(p.category)))
    IN  [totalPosts |-> totalPosts,
         ratedPosts |-> ratedPosts,
         unratedPosts |-> totalPosts - ratedPosts,
         platformBreakdown |-> b.platformBreakdown,
         ratingBreakdown |-> b.ratingBreakdown,
         categoryBreakdown |->
             IF uncategorised = 0 THEN b.categoryBreakdown
             ELSE [k \in DOMAIN b.categoryBreakdown \cup {Unknown} |->
                      IF k = Unknown THEN uncategorised ELSE b.categoryBreakdown[k]]]

getStats(d) ==
    LET totalPosts == Len(d.posts)
        ratedPosts == Len(SelectSeq(d.posts, LAMBDA p : p.rating # Null))
        b == Breakdowns(d.posts, totalPosts)
    IN  [totalPosts |-> totalPosts,
         ratedPosts |-> ratedPosts,
         unratedPosts |-> totalPosts - ratedPosts,
         platformBreakdown |-> b.platformBreakdown,
         ratingBreakdown |-> b.ratingBreakdown,
         categoryBreakdown |-> b.categoryBreakdown]

(***************************************************************************)
(* Return values.                                                          *)
(***************************************************************************)
RetId(id) == [kind |-> "id", val |-> id]
RetNull == [kind |-> "null", val |-> <<>>]
RetBool(b) == [kind |-> "bool", val |-> b]
RetVoid == [kind |-> "void", val |-> <<>>]
RetThrow == [kind |-> "throw", val |-> <<>>]
RetPage(p) == [kind |-> "page", val |-> p]
RetList(posts) == [kind |-> "list", val |-> posts]
RetStats(stats) == [kind |-> "stats", val |-> stats]
RetStatus(code) == [kind |-> "status", val |-> code]

Call(name, i, args) == [name |-> name, inst |-> i, args |-> args]

\* saveDB keeping the posts of the document that the writer does not hold.
saveDB_Merge(i, d, w, r) ==
    /\ data' = [data EXCEPT ![i] = d]
    /\ file' = IF w
               THEN LET old == IF file.kind = "doc" THEN ParsedData(file.doc).posts ELSE <<>>
                        kept == SelectSeq(old, LAMBDA q : q \notin {d.posts[k] : k \in 1 .. Len(d.posts)})
                    IN  FileDoc(Stringify([d EXCEPT !.posts = kept \o d.posts]))
               ELSE file
    /\ ret' = IF w THEN r ELSE RetThrow

\* saveDB after the in-memory state became d: with w the write succeeds and
\* replaces the document, without it the file is left as it was and the
\* error is thrown to the caller, whose result otherwise is r.
saveDB(i, d, w, r) ==
    /\ data' = [data EXCEPT ![i] = d]
    /\ file' = IF w THEN FileDoc(Stringify(d)) ELSE file
    /\ ret' = IF w THEN r ELSE RetThrow

NoChange(r) ==
    /\ ret' = r
    /\ UNCHANGED <<data, file>>

(***************************************************************************)
(* Operations.                                                             *)
(***************************************************************************)
\* The categories file as the rating test writes it: every category with
\* empty example lists.
EmptyCategories ==
    [c \in Categories |-> [likedExamples |-> <<>>, dislikedExamples |-> <<>>]]

\* No capture run has been started.
NoRun == [pc |-> "idle"]
NoFeed == [appears |-> {}]
NoTrace == [waited |-> <<>>]

\* A store constructed on an empty document.
InitStore ==
    /\ data = [i \in Instances |-> EmptyData]
    /\ live = {"A"}
    /\ file = FileDoc(Stringify(EmptyData))
    /\ now = 0
    /\ call = Call("constructor", "A", <<>>)
    /\ ret = RetVoid
    /\ categories = EmptyCategories

Init ==
    /\ InitStore
    /\ run = NoRun
    /\ feed = NoFeed
    /\ trace = NoTrace

\* A constructor that starts empty on an unusable file without writing it.
Constructor_NoSave(i, w) ==
    /\ call' = Call("constructor", i, <<>>)
    /\ UNCHANGED <<now, outside>>
    /\ live' = live \cup {i}
    /\ ret' = RetVoid
    /\ UNCHANGED file
    /\ data' = [data EXCEPT ![i] = IF file.kind = "doc" THEN ParsedData(file.doc)
                                   ELSE EmptyData]

Constructor(i, w) ==
    /\ call' = Call("constructor", i, <<>>)
    /\ UNCHANGED <<now, outside>>
    /\ IF file.kind = "doc"
       THEN /\ data' = [data EXCEPT ![i] = ParsedData(file.doc)]
            /\ live' = live \cup {i}
            /\ ret' = RetVoid
            /\ UNCHANGED file
       ELSE /\ saveDB(i, EmptyData, w, RetVoid)
            /\ live' = IF w THEN live \cup {i} ELSE live

\* addPost appending the post before it looks for a duplicate.
AddPost_PushFirst(i, c, w) ==
    /\ i \in live
    /\ call' = Call("addPost", i, c)
    /\ UNCHANGED <<live, now, outside>>
    /\ LET d == data[i]
           post == NewPost(c, now)
       IN  /\ Len(d.posts) < MaxPosts
           /\ IF postExists(d.posts, c.description, c.screenshotPath,
                            c.platformUniqueId, c.contentHash)
              THEN /\ data' = [data EXCEPT ![i].posts = Append(d.posts, post)]
                   /\ ret' = RetNull
                   /\ UNCHANGED file
              ELSE saveDB(i, [d EXCEPT !.posts = Append(d.posts, post)], w, RetId(post.id))

\* addPost, followed while the store holds fewer than max posts.
AddPostUpTo(i, c, w, max) ==
    /\ i \in live
    /\ call' = Call("addPost", i, c)
    /\ UNCHANGED <<live, now, outside>>
    /\ LET d == data[i] IN
       IF postExists(d.posts, c.description, c.screenshotPath,
                     c.platformUniqueId, c.contentHash)
       THEN NoChange(RetNull)
       ELSE /\ Len(d.posts) < max
            /\ LET post == NewPost(c, now) IN
               saveDB(i, [d EXCEPT !.posts = Append(d.posts, post)], w, RetId(post.id))

AddPost(i, c, w) == AddPostUpTo(i, c, w, MaxPosts)

\* updateRating setting the rating of every stored post.
UpdateRating_All(i, postId, rating, w) ==
    /\ i \in live
    /\ call' = Call("updateRating", i, <<postId, rating>>)
    /\ UNCHANGED <<live, now, outside>>
    /\ LET d == data[i]
           k == FindIndex(d.posts, postId)
       IN  IF k = 0
           THEN NoChange(RetBool(FALSE))
           ELSE saveDB(i, [d EXCEPT !.posts = [j \in 1 .. Len(d.posts) |->
                                                 [d.posts[j] EXCEPT !.rating = rating]]],
                       w, RetBool(TRUE))

UpdateRating(i, postId, rating, w) ==
    /\ i \in live
    /\ call' = Call("updateRating", i, <<postId, rating>>)
    /\ UNCHANGED <<live, now, outside>>
    /\ LET d == data[i]
           k == FindIndex(d.posts, postId)
       IN  IF k = 0
           THEN NoChange(RetBool(FALSE))
           ELSE saveDB(i, [d EXCEPT !.posts[k].rating = rating], w, RetBool(TRUE))

\* goToIndex accepting the index one past the last post.
GoToIndex_AcceptsLength(i, index, w) ==
    /\ i \in live
    /\ call' = Call("goToIndex", i, <<index>>)
    /\ UNCHANGED <<live, now, outside>>
    /\ LET d == data[i] IN
       IF index < 0 \/ index > Len(d.posts)
       THEN NoChange(RetBool(FALSE))
       ELSE saveDB(i, [d EXCEPT !.currentIndex = index], w, RetBool(TRUE))

GoToIndex(i, index, w) ==
    /\ i \in live
    /\ call' = Call("goToIndex", i, <<index>>)
    /\ UNCHANGED <<live, now, outside>>
    /\ LET d == data[i] IN
       IF index < 0 \/ index >= Len(d.posts)
       THEN NoChange(RetBool(FALSE))
       ELSE saveDB(i, [d EXCEPT !.currentIndex = index], w, RetBool(TRUE))

\* moveForward reporting failure whenever the move was cut at the last post.
MoveForward_ClampedFails(i, steps, w) ==
    /\ i \in live
    /\ call' = Call("moveForward", i, <<steps>>)
    /\ UNCHANGED <<live, now, outside>>
    /\ LET d == data[i]
           newIndex == Min(d.currentIndex + steps, Len(d.posts) - 1)
       IN  IF newIndex = d.currentIndex
           THEN NoChange(RetBool(FALSE))
           ELSE /\ InModelRange(newIndex)
                /\ saveDB(i, [d EXCEPT !.currentIndex = newIndex], w,
                          RetBool(d.currentIndex + steps <= Len(d.posts) - 1))

MoveForward(i, steps, w) ==
    /\ i \in live
    /\ call' = Call("moveForward", i, <<steps>>)
    /\ UNCHANGED <<live, now, outside>>
    /\ LET d == data[i]
           newIndex == Min(d.currentIndex + steps, Len(d.posts) - 1)
       IN  IF newIndex = d.currentIndex
           THEN NoChange(RetBool(FALSE))
           ELSE /\ InModelRange(newIndex)
                /\ saveDB(i, [d EXCEPT !.currentIndex = newIndex], w, RetBool(TRUE))

MoveBackward(i, steps, w) ==
    /\ i \in live
    /\ call' = Call("moveBackward", i, <<steps>>)
    /\ UNCHANGED <<live, now, outside>>
    /\ LET d == data[i]
           newIndex == Max(d.currentIndex - steps, 0)
       IN  IF newIndex = d.currentIndex
           THEN NoChange(RetBool(FALSE))
           ELSE /\ InModelRange(newIndex)
                /\ saveDB(i, [d EXCEPT !.currentIndex = newIndex], w, RetBool(TRUE))

\* deletePost leaving the pointer where it was.
DeletePost_NoClamp(i, postId, w) ==
    /\ i \in live
    /\ call' = Call("deletePost", i, <<postId>>)
    /\ UNCHANGED <<live, now, outside>>
    /\ LET d == data[i]
           k == FindIndex(d.posts, postId)
       IN  IF k = 0
           THEN NoChange(RetBool(FALSE))
           ELSE saveDB(i, [d EXCEPT !.posts = Splice(d.posts, k)], w, RetBool(TRUE))

DeletePost(i, postId, w) ==
    /\ i \in live
    /\ call' = Call("deletePost", i, <<postId>>)
    /\ UNCHANGED <<live, now, outside>>
    /\ LET d == data[i]
           k == FindIndex(d.posts, postId)
       IN  IF k = 0
           THEN NoChange(RetBool(FALSE))
           ELSE LET posts == Splice(d.posts, k)
                    index == IF d.currentIndex >= Len(posts)
                             THEN Max(0, Len(posts) - 1)
                             ELSE d.currentIndex
                IN  saveDB(i, [d EXCEPT !.posts = posts, !.currentIndex = index],
                           w, RetBool(TRUE))

ClearAll(i, w) ==
    /\ i \in live
    /\ call' = Call("clearAll", i, <<>>)
    /\ UNCHANGED <<live, now, outside>>
    /\ saveDB(i, [data[i] EXCEPT !.posts = <<>>, !.currentIndex = 0], w, RetVoid)

GetPosts(i, pageSize, offsetFromCurrent) ==
    /\ i \in live
    /\ call' = Call("getPosts", i, <<pageSize, offsetFromCurrent>>)
    /\ UNCHANGED <<live, now, outside>>
    /\ NoChange(RetPage(getPosts(data[i], pageSize, offsetFromCurrent)))

\* getAllPosts sorting the stored array itself instead of a copy of it.
GetAllPosts_SortInPlace(i) ==
    /\ i \in live
    /\ call' = Call("getAllPosts", i, <<>>)
    /\ UNCHANGED <<live, now, file, outside>>
    /\ data' = [data EXCEPT ![i].posts = SortByTimeDesc(data[i].posts)]
    /\ ret' = RetList(getAllPosts(data[i]))

GetAllPosts(i) ==
    /\ i \in live
    /\ call' = Call("getAllPosts", i, <<>>)
    /\ UNCHANGED <<live, now, outside>>
    /\ NoChange(RetList(getAllPosts(data[i])))

GetPostsByRating(i, rating) ==
    /\ i \in live
    /\ call' = Call("getPostsByRating", i, <<rating>>)
    /\ UNCHANGED <<live, now, outside>>
    /\ NoChange(RetList(getPostsByRating(data[i], rating)))

GetPostsByPlatform(i, platform) ==
    /\ i \in live
    /\ call' = Call("getPostsByPlatform", i, <<platform>>)
    /\ UNCHANGED <<live, now, outside>>
    /\ NoChange(RetList(getPostsByPlatform(data[i], platform)))

GetPostsByCategory(i, category) ==
    /\ i \in live
    /\ call' = Call("getPostsByCategory", i, <<category>>)
    /\ UNCHANGED <<live, now, outside>>
    /\ NoChange(RetList(getPostsByCategory(data[i], category)))

GetPostsByCategory_Paginated(i, category, pageSize, page) ==
    /\ i \in live
    /\ call' = Call("getPostsByCategory_Paginated", i, <<category, pageSize, page>>)
    /\ UNCHANGED <<live, now, outside>>
    /\ NoChange(RetPage(getPostsByCategory_Paginated(data[i], category, pageSize, page)))

GetStats(i) ==
    /\ i \in live
    /\ call' = Call("getStats", i, <<>>)
    /\ UNCHANGED <<live, now, outside>>
    /\ NoChange(RetStats(getStats(data[i])))

Tick ==
    /\ now < MaxClock
    /\ now' = now + 1
    /\ UNCHANGED <<data, live, file, call, ret, outside>>

\* The ids a caller can name: those of the stored posts and one of no post.
IdsOf(i) == {data[i].posts[k].id : k \in 1 .. Len(data[i].posts)} \cup {UnknownId}

(***************************************************************************)
(* The rating endpoint of the server, PUT /api/posts/:postId/rating.       *)
(***************************************************************************)
\* The rating of the request body: a number, null, absent, or a string
\* that is not empty.
JNumber(n) == [type |-> "number", num |-> n]
JNull == [type |-> "null", num |-> 0]
JMissing == [type |-> "undefined", num |-> 0]
JString == [type |-> "string", num |-> 0]

RequestRatings == {JNumber(1), JNumber(-1), JNumber(0), JNumber(2), JNull, JMissing, JString}

\* Whether the value is truthy.
JsTruthy(v) ==
    CASE v.type = "number" -> v.num # 0
      [] v.type = "string" -> TRUE
      [] OTHER -> FALSE

\* The value as updateRating stores it.
ToRating(v) ==
    CASE v.type = "number" -> Num(v.num)
      [] v.type = "null" -> Null
      [] OTHER -> UndefinedRating

\* The check of the handler: TRUE when the request is refused.
InvalidRating(rating) ==
    JsTruthy(rating)
        /\ (rating.type # "number" \/ (rating.num # 1 /\ rating.num # -1 /\ rating.num # 0))

\* The handler: 400 for a rating the check refuses; otherwise updateRating
\* is called, answering 200 when it found the post and 404 when not, and
\* 500 when it throws.
PutRating(i, postId, rating, w) ==
    /\ i \in live
    /\ call' = Call("putRating", i, <<postId, rating>>)
    /\ UNCHANGED <<live, now, outside>>
    /\ IF InvalidRating(rating)
       THEN NoChange(RetStatus(400))
       ELSE LET d == data[i]
                k == FindIndex(d.posts, postId)
            IN  IF k = 0
                THEN NoChange(RetStatus(404))
                ELSE /\ data' = [data EXCEPT ![i] = [d EXCEPT !.posts[k].rating = ToRating(rating)]]
                     /\ file' = IF w THEN FileDoc(Stringify(data'[i])) ELSE file
                     /\ ret' = IF w THEN RetStatus(200) ELSE RetStatus(500)

NextRating ==
    \/ \E c \in FewCandidates : AddPost("A", c, TRUE)
    \/ \E id \in IdsOf("A"), rating \in RequestRatings, w \in BOOLEAN :
          PutRating("A", id, rating, w)

SpecRating == Init /\ [][NextRating]_vars

(***************************************************************************)
(* One store, every write succeeding: every operation of the store.        *)
(***************************************************************************)
Next ==
    \/ \E c \in StoreCandidates : AddPost("A", c, TRUE)
    \/ \E id \in IdsOf("A"), r \in Ratings : UpdateRating("A", id, r, TRUE)
    \/ \E id \in IdsOf("A") : DeletePost("A", id, TRUE)
    \/ \E n \in Indexes : GoToIndex("A", n, TRUE)
    \/ \E n \in Steps : MoveForward("A", n, TRUE)
    \/ \E n \in Steps : MoveBackward("A", n, TRUE)
    \/ ClearAll("A", TRUE)
    \/ Constructor("A", TRUE)
    \/ Tick

Spec == Init /\ [][Next]_vars

(***************************************************************************)
(* One store, every write succeeding: addPost over the deduplication       *)
(* candidates, with reloads.                                               *)
(***************************************************************************)
NextDedup ==
    \/ \E c \in DedupCandidates : AddPost("A", c, TRUE)
    \/ Constructor("A", TRUE)
    \/ Tick

SpecDedup == Init /\ [][NextDedup]_vars

(***************************************************************************)
(* One store, every write succeeding: the pointer moved over a growing     *)
(* sequence, and the window read around it.                                *)
(***************************************************************************)
NextPage ==
    \/ \E c \in StoreCandidates : AddPost("A", c, TRUE)
    \/ \E n \in Steps : MoveForward("A", n, TRUE)
    \/ \E n \in Steps : MoveBackward("A", n, TRUE)
    \/ \E n \in PageSizes, o \in Offsets : GetPosts("A", n, o)
    \/ ClearAll("A", TRUE)
    \/ Tick

SpecPage == Init /\ [][NextPage]_vars

(***************************************************************************)
(* One store whose writes may fail (disk full, permissions).               *)
(***************************************************************************)
NextFail ==
    \E w \in BOOLEAN :
        \/ \E c \in FewCandidates : AddPost("A", c, w)
        \/ \E id \in IdsOf("A"), r \in Ratings : UpdateRating("A", id, r, w)
        \/ \E id \in IdsOf("A") : DeletePost("A", id, w)
        \/ \E n \in Indexes : GoToIndex("A", n, w)
        \/ \E n \in Steps : MoveForward("A", n, w)
        \/ \E n \in Steps : MoveBackward("A", n, w)
        \/ ClearAll("A", w)
        \/ Constructor("A", w)

SpecFail == Init /\ [][NextFail]_vars

(***************************************************************************)
(* Two store instances (two processes) opened on the same backing file,    *)
(* every write succeeding.                                                 *)
(***************************************************************************)
NextShared ==
    \E i \in Instances :
        \/ Constructor(i, TRUE)
        \/ \E c \in FewCandidates : AddPost(i, c, TRUE)
        \/ \E id \in IdsOf(i), r \in Ratings : UpdateRating(i, id, r, TRUE)
        \/ \E id \in IdsOf(i) : DeletePost(i, id, TRUE)
        \/ MoveForward(i, 1, TRUE)
        \/ MoveBackward(i, 1, TRUE)
        \/ ClearAll(i, TRUE)

SpecShared == Init /\ [][NextShared]_vars

(***************************************************************************)
(* One store holding up to MaxWindowPosts numbered posts: the paginated    *)
(* reads at every pointer position.                                        *)
(***************************************************************************)
NextWindow ==
    \/ AddPostUpTo("A", WindowCandidate(Len(data["A"].posts) + 1), TRUE, MaxWindowPosts)
    \/ \E n \in WindowIndexes : GoToIndex("A", n, TRUE)
    \/ \E n \in WindowSteps : MoveForward("A", n, TRUE)
    \/ \E n \in WindowSteps : MoveBackward("A", n, TRUE)
    \/ \E n \in WindowPageSizes, o \in Offsets : GetPosts("A", n, o)
    \/ \E c \in Categories, n \in CategoryPageSizes, pg \in Pages :
           GetPostsByCategory_Paginated("A", c, n, pg)
    \/ ClearAll("A", TRUE)
    \/ Tick

SpecWindow == Init /\ [][NextWindow]_vars

(***************************************************************************)
(* One store, every write succeeding: the operations that change the       *)
(* stored sequence or read it sorted.                                      *)
(***************************************************************************)
NextQueries ==
    \/ \E c \in StoreCandidates : AddPost("A", c, TRUE)
    \/ \E id \in IdsOf("A"), r \in Ratings : UpdateRating("A", id, r, TRUE)
    \/ \E id \in IdsOf("A") : DeletePost("A", id, TRUE)
    \/ MoveForward("A", 1, TRUE)
    \/ MoveBackward("A", 1, TRUE)
    \/ ClearAll("A", TRUE)
    \/ Constructor("A", TRUE)
    \/ GetPosts("A", MaxPosts, 0)
    \/ GetAllPosts("A")
    \/ \E r \in QueryRatings : GetPostsByRating("A", r)
    \/ \E pl \in Platforms : GetPostsByPlatform("A", pl)
    \/ \E c \in Categories : GetPostsByCategory("A", c)
    \/ Tick

SpecQueries == Init /\ [][NextQueries]_vars

(***************************************************************************)
(* One store of posts with and without platform, category and rating:      *)
(* the statistics.                                                         *)
(***************************************************************************)
NextStats ==
    \/ \E c \in StatsCandidates : AddPost("A", c, TRUE)
    \/ \E id \in IdsOf("A"), r \in StatsRatings : UpdateRating("A", id, r, TRUE)
    \/ \E id \in IdsOf("A") : DeletePost("A", id, TRUE)
    \/ GetStats("A")
    \/ Tick

SpecStats == Init /\ [][NextStats]_vars

(***************************************************************************)
(* Stores constructed on a path whose file is missing, unreadable or a     *)
(* document, every write succeeding; between the calls the file can be     *)
(* removed or overwritten from outside the program.                        *)
(***************************************************************************)
UnusableFiles == {FileMissing, FileCorrupt, FileNull}

\* Before any store is constructed.
InitLoad ==
    /\ data = [i \in Instances |-> EmptyData]
    /\ live = {}
    /\ file \in UnusableFiles \cup {FileDoc(Stringify(EmptyData))}
    /\ now = 0
    /\ call = Call("none", "A", <<>>)
    /\ ret = RetVoid
    /\ categories = EmptyCategories
    /\ run = NoRun
    /\ feed = NoFeed
    /\ trace = NoTrace

\* The file at the path is removed or overwritten by something else.
Outside(f) ==
    /\ file # f
    /\ file' = f
    /\ call' = Call("outside", "A", <<>>)
    /\ ret' = RetVoid
    /\ UNCHANGED <<data, live, now, outside>>

NextLoad ==
    \/ \E i \in Instances : Constructor(i, TRUE)
    \/ \E c \in FewCandidates : AddPost("A", c, TRUE)
    \/ \E f \in UnusableFiles : Outside(f)
    \/ Tick

SpecLoad == InitLoad /\ [][NextLoad]_vars

(***************************************************************************)
(* One store, every write succeeding: posts added at equal and at later    *)
(* clock readings, and addressed by id.                                    *)
(***************************************************************************)
NextIds ==
    \/ \E c \in IdCandidates : AddPost("A", c, TRUE)
    \/ \E id \in IdsOf("A"), r \in Ratings : UpdateRating("A", id, r, TRUE)
    \/ \E id \in IdsOf("A") : DeletePost("A", id, TRUE)
    \/ Tick

SpecIds == Init /\ [][NextIds]_vars

(***************************************************************************)
(* The feed capture loop.  A run drives one page: it waits for the feed,   *)
(* then repeats capture rounds over the rendered elements and scrolls for  *)
(* more, until it reaches the target or gives up.  The two variants are    *)
(* capturePostScreenshots (which returns the results) and                  *)
(* scrollAndGatherPosts (whose results are the screenshot files it wrote). *)
(* The page renders a prefix of a fixed feed and renders more of it when   *)
(* scrolled, or not.                                                       *)
(***************************************************************************)
Variants == {"capturePostScreenshots", "scrollAndGatherPosts"}

\* config.postSelector and config.fallbackSelectors of the LinkedIn
\* configuration, which lists two fallbacks.
PostSelector == "postSelector"
FallbackSelectors == <<"fallback1", "fallback2">>
Selectors == {PostSelector} \cup {FallbackSelectors[k] : k \in 1 .. Len(FallbackSelectors)}

maxRoundsWithoutProgress == 3
maxScrollAttempts == 5
UniqueIdSlugLen == 50

\* A rendered element: the id in its status link (or data-id), if any, and
\* the content of its text element, if any.
Element(link, text) == [link |-> link, text |-> text]

\* config.getUniqueId; token is what Math.random().toString(36).substring(7)
\* yields in this call
getUniqueId(el, token) ==
    IF el.link # Undefined THEN el.link
    ELSE IF el.text # Undefined
         THEN LET slug == Sanitize(SlicePrefix(el.text, UniqueIdSlugLen)) IN
              IF Truthy(slug) THEN slug ELSE Unknown
         ELSE token

Tokens == {<<"r", "1">>, <<"r", "2">>}

\* The feeds: one of elements with platform ids, one with an element with
\* text only, an element with neither link nor text, and one with both.
Feeds ==
    {<<Element(<<"1">>, <<"x">>), Element(<<"2">>, <<"y">>), Element(<<"3">>, Undefined)>>,
     <<Element(Undefined, <<"a", "!">>), Element(Undefined, Undefined),
       Element(<<"7">>, <<"a", "!">>)>>}

Targets == {2, MaxTarget}

\* The steps of capturing one element that can fail.
ElementSteps ==
    {"getUniqueId", "isInViewport", "scrollIntoView", "expandContent",
     "screenshot", "writeFileSync"}

NoStep == [outcome |-> "none", item |-> 0, screenshot |-> FALSE]

\* No element was passed over for a failure or for being out of view.
NoPass == [outcome |-> "none", item |-> 0]

StartRun(variant, numPosts) ==
    [pc |-> "waitForSelector", variant |-> variant, numPosts |-> numPosts,
     fallback |-> 0, postElements |-> <<>>, position |-> 0,
     capturedPosts |-> {}, results |-> <<>>, screenshotCount |-> 0,
     roundsWithoutProgress |-> 0, processedInThisRound |-> 0,
     scrollAttempts |-> 0]

StartTrace ==
    [waited |-> <<>>, items |-> <<>>, step |-> NoStep, exit |-> "none",
     roundStart |-> 0, zeroRounds |-> 0, passed |-> NoPass]

InitCapture ==
    /\ InitStore
    /\ \E variant \in Variants, numPosts \in Targets : run = StartRun(variant, numPosts)
    /\ \E appears \in SUBSET Selectors, elements \in Feeds :
          \E rendered \in (IF appears = {} THEN {0} ELSE 1 .. Len(elements)) :
             feed = [appears |-> appears, elements |-> elements, rendered |-> rendered]
    /\ trace = StartTrace

\* page.$$(selector) on a page that renders the first `rendered` elements
Query(selector, rendered) ==
    IF selector \in feed.appears THEN [k \in 1 .. rendered |-> k] ELSE <<>>

\* The loop over the fallback selectors from the k-th on, after found was
\* the last result: the first non-empty result of a query that does not
\* throw.
RECURSIVE QueryFallbacks(_, _, _, _)
QueryFallbacks(throwing, rendered, k, found) ==
    IF k > Len(FallbackSelectors) THEN found
    ELSE IF FallbackSelectors[k] \in throwing
         THEN QueryFallbacks(throwing, rendered, k + 1, found)
         ELSE LET elements == Query(FallbackSelectors[k], rendered) IN
              IF Len(elements) > 0 THEN elements
              ELSE QueryFallbacks(throwing, rendered, k + 1, elements)

\* The elements a round works on; the queries of the selectors in throwing
\* throw.  capturePostScreenshots does not catch the error of the query.
QueryPosts(variant, throwing, rendered) ==
    IF PostSelector \notin throwing
    THEN [ok |-> TRUE, elements |-> Query(PostSelector, rendered)]
    ELSE IF variant = "capturePostScreenshots"
         THEN [ok |-> FALSE, elements |-> <<>>]
         ELSE [ok |-> TRUE, elements |-> QueryFallbacks(throwing, rendered, 1, <<>>)]

Return(reason) ==
    /\ run' = [run EXCEPT !.pc = "returned"]
    /\ trace' = [trace EXCEPT !.exit = reason]

Throw(reason) ==
    /\ run' = [run EXCEPT !.pc = "thrown"]
    /\ trace' = [trace EXCEPT !.exit = reason]

\* await page.waitForSelector(config.postSelector, {timeout})
WaitForSelector ==
    /\ run.pc = "waitForSelector"
    /\ run' = IF PostSelector \in feed.appears
              THEN [run EXCEPT !.pc = "while"]
              ELSE [run EXCEPT !.pc = "fallback", !.fallback = 1]
    /\ trace' = [trace EXCEPT !.waited = Append(@, PostSelector)]
    /\ UNCHANGED <<feed, store>>

\* A loop over the fallback selectors that gives up after the first one.
WaitForFallback_FirstOnly ==
    /\ run.pc = "fallback"
    /\ LET selector == FallbackSelectors[run.fallback]
           found == selector \in feed.appears
       IN  /\ run' = IF found THEN [run EXCEPT !.pc = "while"]
                     ELSE [run EXCEPT !.pc = "thrown"]
           /\ trace' = [trace EXCEPT !.waited = Append(@, selector),
                                     !.exit = IF ~found THEN "feedNotFound" ELSE @]
    /\ UNCHANGED <<feed, store>>

\* One turn of the loop over config.fallbackSelectors.
WaitForFallback ==
    /\ run.pc = "fallback"
    /\ LET selector == FallbackSelectors[run.fallback]
           found == selector \in feed.appears
           last == run.fallback = Len(FallbackSelectors)
       IN  /\ run' = IF found THEN [run EXCEPT !.pc = "while"]
                     ELSE IF last THEN [run EXCEPT !.pc = "thrown"]
                     ELSE [run EXCEPT !.fallback = @ + 1]
           /\ trace' = [trace EXCEPT !.waited = Append(@, selector),
                                     !.exit = IF ~found /\ last THEN "feedNotFound" ELSE @]
    /\ UNCHANGED <<feed, store>>

\* The test of the while loop and the query for the elements of the round.
While(throwing) ==
    /\ run.pc = "while"
    /\ UNCHANGED <<feed, store>>
    /\ IF run.screenshotCount >= run.numPosts
       THEN Return("target")
       ELSE LET q == QueryPosts(run.variant, throwing, feed.rendered) IN
            IF ~q.ok THEN Throw("queryFailed")
            ELSE IF Len(q.elements) = 0 THEN Return("noElements")
            ELSE /\ run' = [run EXCEPT !.pc = "for", !.postElements = q.elements,
                                       !.position = 1, !.processedInThisRound = 0]
                 /\ trace' = [trace EXCEPT !.roundStart = Len(trace.items)]

\* The file name `${platform}_${screenshotCount + 1}_${uniqueId}.png`
FilePath(ordinal, uniqueId) == [ordinal |-> ordinal, uniqueId |-> uniqueId]

\* The element was passed over: the loop goes on with the next one.
Skip(outcome, item, shot) ==
    /\ run' = [run EXCEPT !.position = @ + 1]
    /\ trace' = [trace EXCEPT
                    !.step = [outcome |-> outcome, item |-> item, screenshot |-> shot],
                    !.passed = IF outcome \in {"failed", "notInViewport"}
                               THEN [outcome |-> outcome, item |-> item]
                               ELSE @]

\* The screenshot of the element was written: the result is recorded.
Capture(item, uniqueId) ==
    /\ run' = [run EXCEPT
                  !.results = Append(@, [filePath |-> FilePath(run.screenshotCount + 1, uniqueId),
                                         platformUniqueId |-> uniqueId]),
                  !.capturedPosts = @ \cup {uniqueId},
                  !.screenshotCount = @ + 1,
                  !.processedInThisRound = @ + 1,
                  !.position = @ + 1]
    /\ trace' = [trace EXCEPT
                    !.step = [outcome |-> "captured", item |-> item, screenshot |-> TRUE],
                    !.items = Append(@, item)]

\* A loop over postElements that does not test the target before an element.
ForElement_NoTargetCheck(token, visible, failing) ==
    /\ run.pc = "for"
    /\ UNCHANGED <<feed, store>>
    /\ IF run.position > Len(run.postElements)
       THEN /\ run' = [run EXCEPT !.pc = "progress"]
            /\ trace' = [trace EXCEPT !.step = NoStep]
       ELSE LET item == run.postElements[run.position]
                uniqueId == getUniqueId(feed.elements[item], token)
            IN  IF failing = "getUniqueId" THEN Skip("failed", item, FALSE)
                ELSE IF uniqueId \in run.capturedPosts THEN Skip("duplicate", item, FALSE)
                ELSE IF failing = "isInViewport" THEN Skip("failed", item, FALSE)
                ELSE IF ~visible THEN Skip("notInViewport", item, FALSE)
                ELSE IF failing \in {"scrollIntoView", "expandContent", "screenshot"}
                     THEN Skip("failed", item, FALSE)
                ELSE IF failing = "writeFileSync" THEN Skip("failed", item, TRUE)
                ELSE Capture(item, uniqueId)

\* A loop over postElements that does not look the uniqueId up in
\* capturedPosts.
ForElement_NoDuplicateCheck(token, visible, failing) ==
    /\ run.pc = "for"
    /\ UNCHANGED <<feed, store>>
    /\ IF run.position > Len(run.postElements) \/ run.screenshotCount >= run.numPosts
       THEN /\ run' = [run EXCEPT !.pc = "progress"]
            /\ trace' = [trace EXCEPT !.step = NoStep]
       ELSE LET item == run.postElements[run.position]
                uniqueId == getUniqueId(feed.elements[item], token)
            IN  IF failing \in {"getUniqueId", "isInViewport"} THEN Skip("failed", item, FALSE)
                ELSE IF ~visible THEN Skip("notInViewport", item, FALSE)
                ELSE IF failing \in {"scrollIntoView", "expandContent", "screenshot"}
                     THEN Skip("failed", item, FALSE)
                ELSE IF failing = "writeFileSync" THEN Skip("failed", item, TRUE)
                ELSE Capture(item, uniqueId)

\* A loop over postElements that adds the uniqueId to capturedPosts before
\* the element is scrolled to, expanded and screenshotted.
ForElement_AddBeforeScreenshot(token, visible, failing) ==
    /\ run.pc = "for"
    /\ UNCHANGED <<feed, store>>
    /\ IF run.position > Len(run.postElements) \/ run.screenshotCount >= run.numPosts
       THEN /\ run' = [run EXCEPT !.pc = "progress"]
            /\ trace' = [trace EXCEPT !.step = NoStep]
       ELSE LET item == run.postElements[run.position]
                uniqueId == getUniqueId(feed.elements[item], token)
            IN  IF failing = "getUniqueId" THEN Skip("failed", item, FALSE)
                ELSE IF uniqueId \in run.capturedPosts THEN Skip("duplicate", item, FALSE)
                ELSE IF failing = "isInViewport" THEN Skip("failed", item, FALSE)
                ELSE IF ~visible THEN Skip("notInViewport", item, FALSE)
                ELSE IF failing \in {"scrollIntoView", "expandContent", "screenshot",
                                     "writeFileSync"}
                     THEN /\ run' = [run EXCEPT !.position = @ + 1,
                                                !.capturedPosts = @ \cup {uniqueId}]
                          /\ trace' = [trace EXCEPT
                                          !.step = [outcome |-> "failed", item |-> item,
                                                    screenshot |-> failing = "writeFileSync"],
                                          !.passed = [outcome |-> "failed", item |-> item]]
                ELSE Capture(item, uniqueId)

\* One turn of the loop over postElements: the element at the position is
\* captured unless the target is reached, it was captured before, it is
\* outside the viewport, or the step `failing` throws; token is the random
\* token of this call of getUniqueId.
ForElement(token, visible, failing) ==
    /\ run.pc = "for"
    /\ UNCHANGED <<feed, store>>
    /\ IF run.position > Len(run.postElements) \/ run.screenshotCount >= run.numPosts
       THEN /\ run' = [run EXCEPT !.pc = "progress"]
            /\ trace' = [trace EXCEPT !.step = NoStep]
       ELSE LET item == run.postElements[run.position]
                uniqueId == getUniqueId(feed.elements[item], token)
            IN  IF failing = "getUniqueId" THEN Skip("failed", item, FALSE)
                ELSE IF uniqueId \in run.capturedPosts THEN Skip("duplicate", item, FALSE)
                ELSE IF failing = "isInViewport" THEN Skip("failed", item, FALSE)
                ELSE IF ~visible THEN Skip("notInViewport", item, FALSE)
                ELSE IF failing \in {"scrollIntoView", "expandContent", "screenshot"}
                     THEN Skip("failed", item, FALSE)
                ELSE IF failing = "writeFileSync" THEN Skip("failed", item, TRUE)
                ELSE Capture(item, uniqueId)

\* A progress check that never resets the count of rounds without progress.
Progress_NoReset ==
    /\ run.pc = "progress"
    /\ UNCHANGED <<feed, store>>
    /\ LET zeroRounds == IF Len(trace.items) = trace.roundStart
                         THEN trace.zeroRounds + 1 ELSE 0
       IN  IF run.processedInThisRound = 0
           THEN IF run.roundsWithoutProgress + 1 >= maxRoundsWithoutProgress
                THEN /\ run' = [run EXCEPT !.pc = "returned", !.roundsWithoutProgress = @ + 1]
                     /\ trace' = [trace EXCEPT !.exit = "stall", !.zeroRounds = zeroRounds]
                ELSE /\ run' = [run EXCEPT !.pc = "scroll", !.roundsWithoutProgress = @ + 1,
                                           !.scrollAttempts = 0]
                     /\ trace' = [trace EXCEPT !.zeroRounds = zeroRounds]
           ELSE /\ run' = [run EXCEPT !.pc = "scroll", !.scrollAttempts = 0]
                /\ trace' = [trace EXCEPT !.zeroRounds = zeroRounds]

\* A progress check that starts counting again at the limit instead of
\* ending the loop.
Progress_NeverStalls ==
    /\ run.pc = "progress"
    /\ UNCHANGED <<feed, store>>
    /\ IF run.processedInThisRound = 0
          /\ run.roundsWithoutProgress + 1 < maxRoundsWithoutProgress
       THEN /\ run' = [run EXCEPT !.pc = "scroll", !.roundsWithoutProgress = @ + 1,
                                  !.scrollAttempts = 0]
            /\ trace' = [trace EXCEPT !.zeroRounds = run.roundsWithoutProgress + 1]
       ELSE /\ run' = [run EXCEPT !.pc = "scroll", !.roundsWithoutProgress = 0,
                                  !.scrollAttempts = 0]
            /\ trace' = [trace EXCEPT !.zeroRounds = 0]

\* After the round: the count of rounds without progress, and the end of
\* the loop when there were maxRoundsWithoutProgress of them in a row.
Progress ==
    /\ run.pc = "progress"
    /\ UNCHANGED <<feed, store>>
    /\ LET zeroRounds == IF Len(trace.items) = trace.roundStart
                         THEN trace.zeroRounds + 1 ELSE 0
       IN  IF run.processedInThisRound = 0
           THEN IF run.roundsWithoutProgress + 1 >= maxRoundsWithoutProgress
                THEN /\ run' = [run EXCEPT !.pc = "returned", !.roundsWithoutProgress = @ + 1]
                     /\ trace' = [trace EXCEPT !.exit = "stall", !.zeroRounds = zeroRounds]
                ELSE /\ run' = [run EXCEPT !.pc = "scroll", !.roundsWithoutProgress = @ + 1,
                                           !.scrollAttempts = 0]
                     /\ trace' = [trace EXCEPT !.zeroRounds = zeroRounds]
           ELSE /\ run' = [run EXCEPT !.pc = "scroll", !.roundsWithoutProgress = 0,
                                      !.scrollAttempts = 0]
                /\ trace' = [trace EXCEPT !.zeroRounds = zeroRounds]

\* capturePostScreenshots: one scroll by 0.8 of the viewport, after which
\* the page renders up to `rendered` elements.
ScrollBy(rendered) ==
    /\ run.pc = "scroll"
    /\ run.variant = "capturePostScreenshots"
    /\ UNCHANGED <<trace, store>>
    /\ run' = [run EXCEPT !.pc = "while"]
    /\ IF run.screenshotCount < run.numPosts
       THEN /\ rendered >= feed.rendered
            /\ feed' = [feed EXCEPT !.rendered = rendered]
       ELSE UNCHANGED feed

\* A scroll phase that gives up after the first attempt without growth.
ScrollAttempt_OneAttempt(rendered, bottom, throwing, bottomThrows) ==
    /\ run.pc = "scroll"
    /\ run.variant = "scrollAndGatherPosts"
    /\ UNCHANGED store
    /\ IF run.screenshotCount >= run.numPosts
       THEN /\ run' = [run EXCEPT !.pc = "while"]
            /\ UNCHANGED <<feed, trace>>
       ELSE /\ rendered >= feed.rendered
            /\ bottom >= rendered
            /\ LET initialPostCount == Len(run.postElements)
                   newPostElements == QueryPosts(run.variant, throwing, rendered).elements
                   bottomCheckPosts == IF bottomThrows THEN <<>>
                                       ELSE Query(PostSelector, bottom)
                   attempts == run.scrollAttempts + 1
               IN  IF Len(newPostElements) > initialPostCount
                   THEN /\ feed' = [feed EXCEPT !.rendered = rendered]
                        /\ run' = [run EXCEPT !.pc = "while", !.scrollAttempts = attempts]
                        /\ UNCHANGED trace
                   ELSE /\ feed' = [feed EXCEPT !.rendered = bottom]
                        /\ IF Len(bottomCheckPosts) > initialPostCount
                           THEN /\ run' = [run EXCEPT !.pc = "while", !.scrollAttempts = attempts]
                                /\ UNCHANGED trace
                           ELSE /\ run' = [run EXCEPT !.pc = "returned",
                                                      !.scrollAttempts = attempts]
                                /\ trace' = [trace EXCEPT !.exit = "noNewContent"]

\* scrollAndGatherPosts: one scroll attempt.  After the small scrolls the
\* page renders up to `rendered` elements and after the scroll to the
\* bottom up to `bottom`; the queries of the selectors in throwing throw,
\* and with bottomThrows so does the query after the scroll to the bottom.
ScrollAttempt(rendered, bottom, throwing, bottomThrows) ==
    /\ run.pc = "scroll"
    /\ run.variant = "scrollAndGatherPosts"
    /\ UNCHANGED store
    /\ IF run.screenshotCount >= run.numPosts
       THEN /\ run' = [run EXCEPT !.pc = "while"]
            /\ UNCHANGED <<feed, trace>>
       ELSE /\ rendered >= feed.rendered
            /\ bottom >= rendered
            /\ LET initialPostCount == Len(run.postElements)
                   newPostElements == QueryPosts(run.variant, throwing, rendered).elements
                   bottomCheckPosts == IF bottomThrows THEN <<>>
                                       ELSE Query(PostSelector, bottom)
                   attempts == run.scrollAttempts + 1
               IN  IF Len(newPostElements) > initialPostCount
                   THEN /\ feed' = [feed EXCEPT !.rendered = rendered]
                        /\ run' = [run EXCEPT !.pc = "while", !.scrollAttempts = attempts]
                        /\ UNCHANGED trace
                   ELSE /\ feed' = [feed EXCEPT !.rendered = bottom]
                        /\ IF Len(bottomCheckPosts) > initialPostCount
                           THEN /\ run' = [run EXCEPT !.pc = "while", !.scrollAttempts = attempts]
                                /\ UNCHANGED trace
                           ELSE IF attempts < maxScrollAttempts
                                THEN /\ run' = [run EXCEPT !.scrollAttempts = attempts]
                                     /\ UNCHANGED trace
                                ELSE /\ run' = [run EXCEPT !.pc = "returned",
                                                           !.scrollAttempts = attempts]
                                     /\ trace' = [trace EXCEPT !.exit = "noNewContent"]

\* How many elements a page can render: up to the length of the feeds.
Renderings == 1 .. 3

NextCapture ==
    \/ WaitForSelector
    \/ WaitForFallback
    \/ \E throwing \in SUBSET Selectors : While(throwing)
    \/ \E token \in Tokens, visible \in BOOLEAN, failing \in ElementSteps \cup {"none"} :
          ForElement(token, visible, failing)
    \/ Progress
    \/ \E rendered \in Renderings : ScrollBy(rendered)
    \/ \E rendered \in Renderings, bottom \in Renderings,
          throwing \in SUBSET Selectors, bottomThrows \in BOOLEAN :
          ScrollAttempt(rendered, bottom, throwing, bottomThrows)

SpecCapture == InitCapture /\ [][NextCapture]_vars

\* Every call to the browser returns, so a run that has not ended takes its
\* next step.
SpecCaptureFair == SpecCapture /\ WF_vars(NextCapture)

(***************************************************************************)
(* gatherAndStorePosts: for each requested platform, capture its feed,     *)
(* then classify every captured file and add the categorised ones to the   *)
(* store.  The capture and the classifier are the environment: a capture   *)
(* returns a list of files or throws, a classification returns a           *)
(* description and a category name or null, or throws.  In these runs      *)
(* `run` is the state of the call, `feed` the pages it was given and       *)
(* `trace` what the environment answered.                                  *)
(***************************************************************************)
Twitter == <<"t", "w">>
Linkedin == <<"l", "i">>

PlatformLists == {<<Twitter>>, <<Linkedin>>, <<Twitter, Linkedin>>, <<Linkedin, Twitter>>}

\* The k-th file of a capture: `${platform}_${k}_${uniqueId}.png` and the
\* unique id.  The second file of twitter and the first of linkedin have
\* the same unique id.
CapturedFile(platform, k) ==
    LET uniqueId == Decimal(IF platform = Twitter THEN k ELSE k + 1) IN
    [filePath |-> platform \o <<"_">> \o Decimal(k) \o <<"_">> \o uniqueId,
     platformUniqueId |-> uniqueId]

\* What capturePostScreenshots gives: an error, or up to MaxFiles files.
CaptureOutcomes(platform) ==
    {[ok |-> FALSE, files |-> <<>>]} \cup
    {[ok |-> TRUE, files |-> [k \in 1 .. n |-> CapturedFile(platform, k)]] : n \in 0 .. MaxFiles}

\* What reviewSocialPost gives: an error, no category, or a category.
Analyses ==
    {[ok |-> FALSE, description |-> <<>>, categoryName |-> Null],
     [ok |-> TRUE, description |-> <<"a">>, categoryName |-> Null],
     [ok |-> TRUE, description |-> <<"a">>, categoryName |-> <<"c">>],
     [ok |-> TRUE, description |-> <<"b">>, categoryName |-> <<"d">>]}

\* PostDB.calculateContentHash: a fingerprint of the file's bytes.
calculateContentHash(filePath) == <<"#">> \o filePath

NewPlatformResult(platform) ==
    [platform |-> platform, postsGathered |-> 0, postsAddedToDb |-> 0, errors |-> <<>>]

StartGather(platforms) ==
    [pc |-> "platforms", platforms |-> platforms, k |-> 1,
     capturedFiles |-> <<>>, f |-> 0,
     platformResult |-> NewPlatformResult(<<>>),
     results |-> [totalPostsGathered |-> 0, totalPostsAddedToDb |-> 0,
                  platformResults |-> <<>>]]

InitGather ==
    /\ InitStore
    /\ \E platforms \in PlatformLists : run = StartGather(platforms)
    /\ \E pages \in SUBSET {Twitter, Linkedin} : feed = [pages |-> pages]
    /\ trace = [captures |-> <<>>, files |-> <<>>]

\* results.platformResults.push(platformResult) and the two totals.
PushResult(results, platformResult) ==
    [totalPostsGathered |-> results.totalPostsGathered + platformResult.postsGathered,
     totalPostsAddedToDb |-> results.totalPostsAddedToDb + platformResult.postsAddedToDb,
     platformResults |-> Append(results.platformResults, platformResult)]

\* A platform loop whose capture error ends it without a result for the
\* platform.
GatherPlatform_NoOuterTry(outcome) ==
    /\ run.pc = "platforms"
    /\ run.k <= Len(run.platforms)
    /\ UNCHANGED <<feed, store>>
    /\ LET platform == run.platforms[run.k]
           fresh == NewPlatformResult(platform)
       IN  /\ outcome \in CaptureOutcomes(platform)
           /\ IF platform \notin feed.pages
              THEN /\ outcome.files = <<>> /\ ~outcome.ok
                   /\ run' = [run EXCEPT
                                 !.k = @ + 1,
                                 !.results.platformResults =
                                     Append(@, [fresh EXCEPT !.errors = <<"noPage">>])]
                   /\ trace' = [trace EXCEPT !.captures = Append(@, [page |-> FALSE, outcome |-> outcome])]
              ELSE /\ trace' = [trace EXCEPT !.captures = Append(@, [page |-> TRUE, outcome |-> outcome])]
                   /\ IF ~outcome.ok
                      THEN run' = [run EXCEPT !.pc = "returned"]
                      ELSE run' = [run EXCEPT
                                     !.pc = "files",
                                     !.capturedFiles = outcome.files,
                                     !.f = 1,
                                     !.platformResult =
                                         [fresh EXCEPT !.postsGathered = Len(outcome.files)]]

\* One turn of the loop over the platforms, up to the capture: without a
\* page the platform gets an error and the loop goes on; an error of the
\* capture is caught, recorded and the loop goes on; otherwise the captured
\* files are processed.
GatherPlatform(outcome) ==
    /\ run.pc = "platforms"
    /\ run.k <= Len(run.platforms)
    /\ UNCHANGED <<feed, store>>
    /\ LET platform == run.platforms[run.k]
           fresh == NewPlatformResult(platform)
       IN  /\ outcome \in CaptureOutcomes(platform)
           /\ IF platform \notin feed.pages
              THEN /\ outcome.files = <<>> /\ ~outcome.ok
                   /\ run' = [run EXCEPT
                                 !.k = @ + 1,
                                 !.results.platformResults =
                                     Append(@, [fresh EXCEPT !.errors = <<"noPage">>])]
                   /\ trace' = [trace EXCEPT !.captures = Append(@, [page |-> FALSE, outcome |-> outcome])]
              ELSE /\ trace' = [trace EXCEPT !.captures = Append(@, [page |-> TRUE, outcome |-> outcome])]
                   /\ IF ~outcome.ok
                      THEN run' = [run EXCEPT
                                     !.k = @ + 1,
                                     !.results =
                                         PushResult(@, [fresh EXCEPT !.errors = <<"gather">>])]
                      ELSE run' = [run EXCEPT
                                     !.pc = "files",
                                     !.capturedFiles = outcome.files,
                                     !.f = 1,
                                     !.platformResult =
                                         [fresh EXCEPT !.postsGathered = Len(outcome.files)]]

\* The arguments of the addPost call for a classified file.
GatheredCandidate(platform, captured, analysis) ==
    [description |-> analysis.description, screenshotPath |-> captured.filePath,
     rating |-> Null, platform |-> platform, originalPostId |-> Undefined,
     platformUniqueId |-> captured.platformUniqueId,
     contentHash |-> calculateContentHash(captured.filePath),
     category |-> analysis.categoryName]

\* What was done with a file: the answers of the environment (w: the
\* store's write succeeds, TRUE when nothing is written) and the outcome.
Processed(platform, captured, analysis, w, outcome) ==
    [platform |-> platform, file |-> captured, analysis |-> analysis,
     written |-> w, outcome |-> outcome]

\* A loop over the files that adds a file whatever its category.
ProcessFile_NoCategoryFilter(analysis, w) ==
    /\ run.pc = "files"
    /\ run.f <= Len(run.capturedFiles)
    /\ UNCHANGED <<live, now, categories, feed>>
    /\ LET platform == run.platforms[run.k]
           captured == run.capturedFiles[run.f]
           c == GatheredCandidate(platform, captured, analysis)
           d == data["A"]
           exists == postExists(d.posts, c.description, c.screenshotPath,
                                c.platformUniqueId, c.contentHash)
           post == NewPost(c, now)
           outcome == IF ~analysis.ok THEN "failed"
                      ELSE IF exists THEN "duplicate"
                      ELSE IF w THEN "added" ELSE "failed"
       IN  /\ outcome \in {"uncategorized", "duplicate"} \/ ~analysis.ok => w
           /\ trace' = [trace EXCEPT
                           !.files = Append(@, Processed(platform, captured, analysis, w, outcome))]
           /\ run' = [run EXCEPT
                         !.f = @ + 1,
                         !.platformResult.postsAddedToDb =
                             IF outcome = "added" THEN @ + 1 ELSE @,
                         !.platformResult.errors =
                             IF outcome = "failed" THEN Append(@, "process") ELSE @]
           /\ IF ~analysis.ok
              THEN UNCHANGED <<data, file, call, ret>>
              ELSE /\ call' = Call("addPost", "A", c)
                   /\ IF exists THEN NoChange(RetNull)
                      ELSE saveDB("A", [d EXCEPT !.posts = Append(d.posts, post)], w,
                                  RetId(post.id))

\* One turn of the loop over the captured files: the file is classified;
\* without a category it is skipped; otherwise addPost is called with the
\* category, and an id counts as a post added.  An error of the classifier
\* or of the store is caught and recorded, and the loop goes on.
ProcessFile(analysis, w) ==
    /\ run.pc = "files"
    /\ run.f <= Len(run.capturedFiles)
    /\ UNCHANGED <<live, now, categories, feed>>
    /\ LET platform == run.platforms[run.k]
           captured == run.capturedFiles[run.f]
           c == GatheredCandidate(platform, captured, analysis)
           d == data["A"]
           exists == postExists(d.posts, c.description, c.screenshotPath,
                                c.platformUniqueId, c.contentHash)
           post == NewPost(c, now)
           outcome == IF ~analysis.ok THEN "failed"
                      ELSE IF analysis.categoryName = Null THEN "uncategorized"
                      ELSE IF exists THEN "duplicate"
                      ELSE IF w THEN "added" ELSE "failed"
       IN  /\ outcome \in {"uncategorized", "duplicate"} \/ ~analysis.ok => w
           /\ trace' = [trace EXCEPT
                           !.files = Append(@, Processed(platform, captured, analysis, w, outcome))]
           /\ run' = [run EXCEPT
                         !.f = @ + 1,
                         !.platformResult.postsAddedToDb =
                             IF outcome = "added" THEN @ + 1 ELSE @,
                         !.platformResult.errors =
                             IF outcome = "failed" THEN Append(@, "process") ELSE @]
           /\ IF ~analysis.ok \/ analysis.categoryName = Null
              THEN UNCHANGED <<data, file, call, ret>>
              ELSE /\ call' = Call("addPost", "A", c)
                   /\ IF exists THEN NoChange(RetNull)
                      ELSE saveDB("A", [d EXCEPT !.posts = Append(d.posts, post)], w,
                                  RetId(post.id))

\* After the last file: the platform's result is pushed and added to the
\* totals.
EndPlatform ==
    /\ run.pc = "files"
    /\ run.f > Len(run.capturedFiles)
    /\ UNCHANGED <<feed, trace, store>>
    /\ run' = [run EXCEPT !.pc = "platforms", !.k = @ + 1,
                          !.results = PushResult(@, run.platformResult)]

\* return results
GatherReturn ==
    /\ run.pc = "platforms"
    /\ run.k > Len(run.platforms)
    /\ UNCHANGED <<feed, trace, store>>
    /\ run' = [run EXCEPT !.pc = "returned"]

NextGather ==
    \/ \E outcome \in CaptureOutcomes(Twitter) \cup CaptureOutcomes(Linkedin) :
          GatherPlatform(outcome)
    \/ \E analysis \in Analyses, w \in BOOLEAN : ProcessFile(analysis, w)
    \/ EndPlatform
    \/ GatherReturn

SpecGather == InitGather /\ [][NextGather]_vars

(***************************************************************************)
(* Properties.                                                             *)
(***************************************************************************)
Range(s) == {s[k] : k \in 1 .. Len(s)}

\* A step that is a call of the named operation (the clock does not move in
\* a call).
IsCall(name) == call'.name = name /\ now' = now

NonEmpty(s) == s # Undefined /\ s # EmptyString

\* C1: no two stored posts ever have the same non-empty platformUniqueId.
C1_UniquePlatformIds ==
    \A i \in live :
        \A j, k \in 1 .. Len(data[i].posts) :
            (j # k /\ NonEmpty(data[i].posts[j].platformUniqueId))
                => data[i].posts[j].platformUniqueId # data[i].posts[k].platformUniqueId

\* A second candidate with a stored platformUniqueId and another description
\* was just refused, beside a post with another identifier.
C1_Witness ==
    /\ call.name = "addPost" /\ ret.kind = "null"
    /\ Len(data["A"].posts) = 2
    /\ NonEmpty(data["A"].posts[1].platformUniqueId)
    /\ NonEmpty(data["A"].posts[2].platformUniqueId)
    /\ \E k \in 1 .. 2 :
           /\ data["A"].posts[k].platformUniqueId = call.args.platformUniqueId
           /\ data["A"].posts[k].description # call.args.description

\* C2: after goToIndex, moveForward or moveBackward returns, currentIndex is
\* in [0, total-1] when total > 0 and is 0 when total = 0.
C2_PointerInRange ==
    \A i \in live :
        (call.inst = i /\ call.name \in {"goToIndex", "moveForward", "moveBackward"}
            /\ ret.kind = "bool")
        => IF Len(data[i].posts) = 0
           THEN data[i].currentIndex = 0
           ELSE data[i].currentIndex \in 0 .. (Len(data[i].posts) - 1)

\* The three-tier rule of the specification, for one stored post and one
\* candidate.
MatchesCandidate(post, c) ==
    CASE NonEmpty(c.platformUniqueId) /\ NonEmpty(post.platformUniqueId)
            -> c.platformUniqueId = post.platformUniqueId
      [] ~(NonEmpty(c.platformUniqueId) /\ NonEmpty(post.platformUniqueId))
         /\ NonEmpty(c.contentHash) /\ NonEmpty(post.contentHash)
            -> c.contentHash = post.contentHash
      [] OTHER
            -> c.description = post.description /\ c.screenshotPath = post.screenshotPath

\* C3: addPost returns the duplicate signal exactly when some stored post
\* matches the candidate under the three-tier rule.
C3_DuplicateExactlyOnMatch ==
    [][IsCall("addPost") =>
          ((ret'.kind = "null") <=>
              \E post \in Range(data[call'.inst].posts) : MatchesCandidate(post, call'.args))]_vars

\* A candidate with a stored platformUniqueId, but a description and a
\* fingerprint no stored post has, was refused.
C3_Witness ==
    /\ call.name = "addPost" /\ ret.kind = "null"
    /\ NonEmpty(call.args.platformUniqueId)
    /\ \E post \in Range(data["A"].posts) :
           post.platformUniqueId = call.args.platformUniqueId
    /\ \A post \in Range(data["A"].posts) :
           /\ post.description # call.args.description
           /\ post.contentHash # call.args.contentHash

\* C4: no two stored posts ever have the same non-empty contentHash.
C4_UniqueContentHashes ==
    \A i \in live :
        \A j, k \in 1 .. Len(data[i].posts) :
            (j # k /\ NonEmpty(data[i].posts[j].contentHash))
                => data[i].posts[j].contentHash # data[i].posts[k].contentHash

\* C5: an addPost that finds a duplicate returns the duplicate signal and
\* changes neither the store's memory nor the document.
C5_DuplicateIsNoOp ==
    [][(IsCall("addPost")
          /\ \E post \in Range(data[call'.inst].posts) : MatchesCandidate(post, call'.args))
       => (ret'.kind = "null" /\ data' = data /\ file' = file)]_vars

\* A duplicate was refused by a store holding rated posts with the pointer
\* moved off the start.
C5_Witness ==
    /\ call.name = "addPost" /\ ret.kind = "null"
    /\ Len(data["A"].posts) = 2
    /\ data["A"].currentIndex = 1
    /\ data["A"].posts[1].rating = Num(1)

\* C6: an addPost that returns an id has grown the store by exactly one post,
\* and the same call made again right after it returns the duplicate signal
\* and adds nothing.
C6_AddTwiceAddsOnce ==
    [][IsCall("addPost") =>
          /\ (ret'.kind = "id") =>
                 Len(data'[call'.inst].posts) = Len(data[call'.inst].posts) + 1
          /\ (call = call' /\ ret.kind = "id") =>
                 (ret'.kind = "null" /\ data' = data)]_vars

\* A candidate with neither identifier nor fingerprint was refused, and the
\* store holds exactly one post with its description and path.
C6_Witness ==
    /\ call.name = "addPost" /\ ret.kind = "null"
    /\ ~NonEmpty(call.args.platformUniqueId) /\ ~NonEmpty(call.args.contentHash)
    /\ Cardinality({k \in 1 .. Len(data["A"].posts) :
                       /\ data["A"].posts[k].description = call.args.description
                       /\ data["A"].posts[k].screenshotPath = call.args.screenshotPath}) = 1
    /\ Len(data["A"].posts) = 1

\* C7: a mutating call whose write fails throws and leaves the store's
\* memory as it was before the call.
C7_FailedWriteNotCommitted ==
    [][(IsCall("addPost") \/ IsCall("updateRating") \/ IsCall("deletePost")
          \/ IsCall("goToIndex") \/ IsCall("moveForward") \/ IsCall("moveBackward")
          \/ IsCall("clearAll"))
       => (ret'.kind = "throw" => data' = data)]_vars

\* C8: a store constructed on the path reads back the post sequence and the
\* pointer the writing store holds in memory.
C8_RoundTrip ==
    /\ file.kind = "doc"
    /\ ParsedData(file.doc) = data["A"]

\* A store was just constructed from a document holding two posts, one rated
\* after it was added and one with absent optional fields, and a moved
\* pointer.
C8_Witness ==
    /\ call.name = "constructor"
    /\ Len(data["A"].posts) = 2
    /\ data["A"].currentIndex = 1
    /\ \E k \in 1 .. 2 : data["A"].posts[k].rating = Num(1)
    /\ \E k \in 1 .. 2 : data["A"].posts[k].platformUniqueId = Undefined
    /\ data["A"].posts[2].timestamp > data["A"].posts[1].timestamp

\* Whether the last call changed its store (and so wrote the document).
Mutated ==
    /\ call.name \in {"addPost", "updateRating", "deletePost", "goToIndex",
                      "moveForward", "moveBackward", "clearAll"}
    /\ \/ ret.kind \in {"id", "void"}
       \/ ret.kind = "bool" /\ ret.val

\* C9: once an instance has mutated, the document is that instance's memory,
\* whole: a post another instance holds and it does not is in neither the
\* document nor a store loaded from it.
C9_LastWriterWins ==
    Mutated =>
        /\ file = FileDoc(Stringify(data[call.inst]))
        /\ \A j \in live \ {call.inst} :
               \A post \in Range(data[j].posts) :
                   post \notin Range(data[call.inst].posts)
                       => /\ StringifyPost(post) \notin Range(file.doc.posts)
                          /\ post \notin Range(ParsedData(file.doc).posts)

\* B mutated last, and A holds a post that B never loaded.
C9_Witness ==
    /\ live = {"A", "B"}
    /\ Mutated /\ call.inst = "B"
    /\ Len(data["B"].posts) > 0
    /\ \E post \in Range(data["A"].posts) :
           /\ post \notin Range(data["B"].posts)
           /\ post \notin Range(ParsedData(file.doc).posts)

\* C10: getPosts returns hasMore = false exactly when the window it returns
\* reaches the end of the stored sequence: the store is empty, or the window
\* holds the last stored post.
C10_HasMore ==
    call.name = "getPosts" =>
        LET posts == data[call.inst].posts IN
        (ret.val.hasMore = FALSE) <=>
            (Len(posts) = 0 \/ posts[Len(posts)] \in Range(ret.val.posts))

\* A window shorter than the store that reaches its end.
C10_Witness ==
    /\ call.name = "getPosts"
    /\ ret.val.hasMore = FALSE
    /\ Len(data["A"].posts) = 2
    /\ Len(ret.val.posts) = 1

\* The window of the stored sequence that a read of pageSize posts around
\* the pointer plus offset covers: insertion indices [WindowStart, WindowEnd).
Clamp(x, lo, hi) == Max(lo, Min(x, hi))

WindowStart(pointer, offset, pageSize, total) ==
    LET target == Clamp(pointer + offset, 0, total - 1) IN
    Max(0, Min(Max(0, target - (pageSize \div 2)), total - pageSize))

WindowEnd(pointer, offset, pageSize, total) ==
    Min(total, WindowStart(pointer, offset, pageSize, total) + pageSize)

SortedByTimeDesc(s) ==
    \A j, k \in 1 .. Len(s) : j < k => s[j].timestamp >= s[k].timestamp

\* C11: for pageSize >= 1 and a non-empty store, getPosts returns exactly the
\* posts stored at the insertion indices [WindowStart, WindowEnd), which are
\* min(pageSize, total) posts, ordered by timestamp descending.
C11_Window ==
    (/\ call.name = "getPosts"
     /\ call.args[1] >= 1
     /\ Len(data[call.inst].posts) > 0) =>
        LET d == data[call.inst]
            total == Len(d.posts)
            start == WindowStart(d.currentIndex, call.args[2], call.args[1], total)
            end == WindowEnd(d.currentIndex, call.args[2], call.args[1], total)
        IN  /\ Range(ret.val.posts) = {d.posts[k + 1] : k \in start .. (end - 1)}
            /\ Len(ret.val.posts) = end - start
            /\ Len(ret.val.posts) = Min(call.args[1], total)
            /\ SortedByTimeDesc(ret.val.posts)

\* A window of three around the last of four posts: it is moved back to
\* hold three posts, the newest of them first.
C11_Witness ==
    /\ call.name = "getPosts"
    /\ call.args = <<3, 0>>
    /\ Len(data["A"].posts) = 4
    /\ data["A"].currentIndex = 3
    /\ Len(ret.val.posts) = 3
    /\ data["A"].posts[2] \in Range(ret.val.posts)
    /\ ret.val.posts[1] = data["A"].posts[4]
    /\ ret.val.posts[1].timestamp > ret.val.posts[3].timestamp

\* C12: getPosts changes neither the pointer nor the stored posts nor the
\* persisted document, and the currentIndex it reports is the store's
\* pointer.
C12_GetPostsReadOnly ==
    [][IsCall("getPosts") =>
          /\ data' = data
          /\ file' = file
          /\ ret'.val.currentIndex = data[call'.inst].currentIndex]_vars

\* C13: getPosts reports hasPrevious = true exactly when the window it
\* returns does not start at the first stored post; with the pointer at 0
\* and more posts than pageSize it is false, and with the pointer further
\* than half a page into a store of more posts than pageSize it is true
\* and the reported currentIndex is the pointer.
C13_HasPrevious ==
    call.name = "getPosts" =>
        LET d == data[call.inst]
            total == Len(d.posts)
            pageSize == call.args[1]
            offset == call.args[2]
        IN  /\ total = 0 => ret.val.hasPrevious = FALSE
            /\ total > 0 =>
                   (ret.val.hasPrevious <=>
                       WindowStart(d.currentIndex, offset, pageSize, total) > 0)
            /\ (total > 0 /\ pageSize >= 1) =>
                   (ret.val.hasPrevious <=> d.posts[1] \notin Range(ret.val.posts))
            /\ (d.currentIndex = 0 /\ offset = 0 /\ pageSize >= 1 /\ total > pageSize) =>
                   ret.val.hasPrevious = FALSE
            /\ (/\ d.currentIndex \in 0 .. (total - 1)
                /\ offset = 0 /\ pageSize >= 1 /\ total > pageSize
                /\ d.currentIndex > pageSize \div 2) =>
                   /\ ret.val.hasPrevious = TRUE
                   /\ ret.val.currentIndex = d.currentIndex

\* After a move forward a window of one post around the second of two
\* posts: it does not hold the first post.
C13_Witness ==
    /\ call.name = "getPosts"
    /\ call.args = <<1, 0>>
    /\ Len(data["A"].posts) = 2
    /\ data["A"].currentIndex = 1
    /\ ret.val.hasPrevious = TRUE
    /\ ret.val.currentIndex = 1
    /\ ret.val.posts = <<data["A"].posts[2]>>

\* The ids of the posts of a sequence, in its order.
IdSeq(posts) == [k \in 1 .. Len(posts) |-> posts[k].id]

\* C14: moveForward(steps) sets the pointer to min(pointer + steps, total - 1)
\* and moveBackward(steps) to max(pointer - steps, 0); each returns true
\* exactly when the pointer changed, and false with no change of the store
\* or of the document, and neither changes the stored posts.
C14_MoveReportsChange ==
    [][(IsCall("moveForward") \/ IsCall("moveBackward")) =>
          LET d == data[call'.inst]
              e == data'[call'.inst]
              steps == call'.args[1]
              total == Len(d.posts)
          IN  /\ e.currentIndex = IF call'.name = "moveForward"
                                  THEN Min(d.currentIndex + steps, total - 1)
                                  ELSE Max(d.currentIndex - steps, 0)
              /\ e.posts = d.posts
              /\ ret' = RetBool(e.currentIndex # d.currentIndex)
              /\ ret' = RetBool(FALSE) => (data' = data /\ file' = file)
              /\ ret' = RetBool(TRUE) => (file' = FileDoc(Stringify(e)))]_vars

\* moveForward(2) on a store of one post moved the pointer onto that post:
\* a move cut at the last post that reports success.
C14_Witness ==
    /\ call.name = "moveForward"
    /\ call.args = <<2>>
    /\ Len(data["A"].posts) = 1
    /\ data["A"].currentIndex = 0
    /\ ret = RetBool(TRUE)

\* C15: updateRating and deletePost given an id of no stored post, and
\* goToIndex given an index outside [0, total - 1], return false, do not
\* throw, and leave the store and the document unchanged.
C15_ValidationFailure ==
    [][(\/ /\ IsCall("updateRating") \/ IsCall("deletePost")
           /\ \A k \in 1 .. Len(data[call'.inst].posts) :
                  data[call'.inst].posts[k].id # call'.args[1]
        \/ /\ IsCall("goToIndex")
           /\ call'.args[1] \notin 0 .. (Len(data[call'.inst].posts) - 1))
       => /\ ret' = RetBool(FALSE)
          /\ data' = data
          /\ file' = file]_vars

\* goToIndex(total) on a store of one post with the pointer on it.
C15_Witness ==
    /\ call.name = "goToIndex"
    /\ call.args = <<1>>
    /\ Len(data["A"].posts) = 1
    /\ data["A"].currentIndex = 0
    /\ ret = RetBool(FALSE)

\* C16: deletePost of a stored id removes exactly that post and keeps the
\* others in their order; a pointer that was in range is afterwards in
\* [0, total - 1], or 0 when the store became empty, and the pointer is
\* changed only when it is not below the new length.
C16_DeleteReclamps ==
    [][(/\ IsCall("deletePost")
        /\ \E k \in 1 .. Len(data[call'.inst].posts) :
               data[call'.inst].posts[k].id = call'.args[1])
       => LET d == data[call'.inst]
              e == data'[call'.inst]
              total == Len(e.posts)
          IN  /\ \E k \in 1 .. Len(d.posts) :
                     /\ d.posts[k].id = call'.args[1]
                     /\ e.posts = [j \in 1 .. (Len(d.posts) - 1) |->
                                      IF j < k THEN d.posts[j] ELSE d.posts[j + 1]]
              /\ \A j \in 1 .. total : e.posts[j].id # call'.args[1]
              /\ d.currentIndex \in 0 .. (Len(d.posts) - 1) =>
                     e.currentIndex \in 0 .. Max(0, total - 1)
              /\ d.currentIndex < total => e.currentIndex = d.currentIndex
              /\ ret' = RetBool(TRUE)]_vars

\* deletePost left a store of one post with the pointer on it, in memory
\* and in the document.
C16_Witness ==
    /\ call.name = "deletePost"
    /\ ret = RetBool(TRUE)
    /\ Len(data["A"].posts) = 1
    /\ data["A"].currentIndex = 0
    /\ ParsedData(file.doc).currentIndex = 0

\* C17: a successful addPost places the new post at the end of the stored
\* sequence, and no call other than deletePost and clearAll changes which
\* posts are stored or their order; the queries that return posts by
\* timestamp descending leave the stored sequence as it is.
C17_AppendOnly ==
    [][now' = now =>
          LET before == data[call'.inst].posts
              after == data'[call'.inst].posts
          IN  /\ (call'.name = "addPost" /\ ret'.kind = "id") =>
                     /\ Len(after) = Len(before) + 1
                     /\ SubSeq(after, 1, Len(before)) = before
                     /\ after[Len(after)].id = ret'.val
              /\ (call'.name \notin {"deletePost", "clearAll"}
                    /\ ~(call'.name = "addPost" /\ ret'.kind = "id")) =>
                     IdSeq(after) = IdSeq(before)
              /\ call'.name \in {"getPosts", "getAllPosts", "getPostsByRating",
                                 "getPostsByPlatform", "getPostsByCategory"} =>
                     after = before]_vars

\* getAllPosts returned two posts newest first, which the store holds
\* oldest first.
C17_Witness ==
    /\ call.name = "getAllPosts"
    /\ Len(ret.val) = 2
    /\ ret.val[1].timestamp > ret.val[2].timestamp
    /\ data["A"].posts = <<ret.val[2], ret.val[1]>>

\* C18: updateRating of a stored id returns true and sets the rating of the
\* post with that id; every other post, every other field of that post, the
\* order and the pointer are unchanged, and getPost of the id then has that
\* rating.
C18_UpdateRatingFrame ==
    [][(/\ IsCall("updateRating")
        /\ \E k \in 1 .. Len(data[call'.inst].posts) :
               data[call'.inst].posts[k].id = call'.args[1])
       => LET d == data[call'.inst]
              e == data'[call'.inst]
              postId == call'.args[1]
              rating == call'.args[2]
          IN  /\ ret' = RetBool(TRUE)
              /\ Len(e.posts) = Len(d.posts)
              /\ e.currentIndex = d.currentIndex
              /\ \A k \in 1 .. Len(d.posts) :
                     IF d.posts[k].id = postId
                     THEN /\ e.posts[k].rating = rating
                          /\ \A f \in PostKeys \ {"rating"} : e.posts[k][f] = d.posts[k][f]
                     ELSE e.posts[k] = d.posts[k]
              /\ getPost(e, postId).rating = rating]_vars

\* The second of two posts was rated 1 and the first still has the rating
\* it was added with.
C18_Witness ==
    /\ call.name = "updateRating"
    /\ ret = RetBool(TRUE)
    /\ Len(data["A"].posts) = 2
    /\ data["A"].posts[2].id = call.args[1]
    /\ data["A"].posts[2].rating = Num(1)
    /\ data["A"].posts[1].rating = Num(5)

\* The stored posts of a category, newest first; posts of one timestamp in
\* stored order.
Matching(posts, category) ==
    SortByTimeDesc(SelectSeq(posts, LAMBDA p : p.category = category))

\* The pages 0 .. last of a category, one after the other.
RECURSIVE PagesUpTo(_, _, _, _)
PagesUpTo(d, category, pageSize, last) ==
    IF last < 0 THEN <<>>
    ELSE PagesUpTo(d, category, pageSize, last - 1)
         \o getPostsByCategory_Paginated(d, category, pageSize, last).posts

\* C19: for pageSize >= 1 and page >= 0, getPostsByCategory_Paginated
\* returns positions [page * pageSize, min((page + 1) * pageSize, n)) of the
\* n matching posts sorted by timestamp descending, totalPosts = n, hasMore
\* exactly when (page + 1) * pageSize < n and hasPrevious exactly when
\* page > 0; the pages up to any page, one after the other, are the first
\* matching posts, none repeated or skipped.
C19_CategoryPages ==
    /\ (call.name = "getPostsByCategory_Paginated"
          /\ call.args[2] >= 1 /\ call.args[3] >= 0) =>
           LET matching == Matching(data[call.inst].posts, call.args[1])
               n == Len(matching)
               pageSize == call.args[2]
               page == call.args[3]
           IN  /\ SortedByTimeDesc(matching)
               /\ ret.val.posts =
                      SubSeq(matching, page * pageSize + 1, Min((page + 1) * pageSize, n))
               /\ ret.val.totalPosts = n
               /\ ret.val.hasMore <=> (page + 1) * pageSize < n
               /\ ret.val.hasPrevious <=> page > 0
    /\ \A i \in live, c \in Categories, pageSize \in CategoryPageSizes, last \in Pages :
           LET matching == Matching(data[i].posts, c) IN
           PagesUpTo(data[i], c, pageSize, last) =
               SubSeq(matching, 1, Min((last + 1) * pageSize, Len(matching)))

\* The second page of two of the three posts of a category: it holds the
\* oldest of them alone, after a first page that held the two newer ones.
C19_Witness ==
    /\ call.name = "getPostsByCategory_Paginated"
    /\ call.args = <<<<"c">>, 2, 1>>
    /\ Len(data["A"].posts) = 4
    /\ ret.val.totalPosts = 3
    /\ ret.val.posts = <<data["A"].posts[1]>>
    /\ ret.val.hasMore = FALSE
    /\ ret.val.hasPrevious = TRUE
    /\ data["A"].posts[1].timestamp < data["A"].posts[2].timestamp

\* The four fields of a page that do not report the pointer.
PageWithoutPointer(page) ==
    [posts |-> page.posts, totalPosts |-> page.totalPosts,
     hasMore |-> page.hasMore, hasPrevious |-> page.hasPrevious]

\* C20: the posts, totalPosts, hasMore and hasPrevious that
\* getPostsByCategory_Paginated returns are those it returns for the same
\* posts under any other pointer, and the call changes neither the pointer
\* nor anything else of the store.
C20_CategoryPagesIgnorePointer ==
    [][IsCall("getPostsByCategory_Paginated") =>
          /\ data' = data
          /\ file' = file
          /\ \A pointer \in {-1, 0, Len(data[call'.inst].posts) - 1} :
                 PageWithoutPointer(
                     getPostsByCategory_Paginated(
                         [data[call'.inst] EXCEPT !.currentIndex = pointer],
                         call'.args[1], call'.args[2], call'.args[3]))
                 = PageWithoutPointer(ret'.val)]_vars

\* The first page of a category read with the pointer on the last of four
\* posts: it holds the newest matching post.
C20_Witness ==
    /\ call.name = "getPostsByCategory_Paginated"
    /\ call.args = <<<<"c">>, 1, 0>>
    /\ Len(data["A"].posts) = 4
    /\ data["A"].currentIndex = 3
    /\ ret.val.posts = <<data["A"].posts[4]>>
    /\ ret.val.currentIndex = 3

\* The sum of the counts of a breakdown.
RECURSIVE Total(_)
Total(breakdown) ==
    IF DOMAIN breakdown = {} THEN 0
    ELSE LET key == CHOOSE k \in DOMAIN breakdown : TRUE IN
         breakdown[key] + Total([k \in DOMAIN breakdown \ {key} |-> breakdown[k]])

\* How many posts satisfy Test.
CountPosts(posts, Test(_)) == Cardinality({k \in 1 .. Len(posts) : Test(posts[k])})

\* Statistics that agree with the stored sequence.
ConsistentStats(stats, posts) ==
    /\ stats.totalPosts = Len(posts)
    /\ stats.ratedPosts + stats.unratedPosts = stats.totalPosts
    /\ stats.ratedPosts = CountPosts(posts, LAMBDA p : p.rating # Null)
    /\ Total(stats.platformBreakdown) = stats.totalPosts
    /\ Total(stats.ratingBreakdown) = stats.ratedPosts
    /\ Total(stats.categoryBreakdown) = CountPosts(posts, LAMBDA p : p.category # Undefined)
    /\ DOMAIN stats.categoryBreakdown =
           {posts[k].category : k \in 1 .. Len(posts)} \ {Undefined}
    /\ \A key \in DOMAIN stats.categoryBreakdown :
           stats.categoryBreakdown[key] = CountPosts(posts, LAMBDA p : p.category = key)

C22_RatingUpdatesCategories ==
    [][(IsCall("updateRating") /\ ret' = RetBool(TRUE)) =>
          LET post == getPost(data'[call'.inst], call'.args[1])
              rating == call'.args[2]
          IN  post.category \in DOMAIN categories =>
                 LET entry == categories'[post.category] IN
                 /\ rating = Num(1) =>
                        post.description \in Range(entry.likedExamples)
                 /\ rating = Num(-1) =>
                        /\ post.description \in Range(entry.dislikedExamples)
                        /\ post.description \notin Range(entry.likedExamples)
                 /\ rating = Null =>
                        /\ post.description \notin Range(entry.likedExamples)
                        /\ post.description \notin Range(entry.dislikedExamples)
                 /\ \A c \in DOMAIN categories \ {post.category} :
                        categories'[c] = categories[c]]_vars

\* The run has ended, by returning or by throwing.
Ended == run.pc \in {"returned", "thrown"}

\* C23: a run whose target exceeds the number of items of a feed that was
\* found, with every element in view and captured without failure, ends by
\* returning, without an error, exactly the items the feed rendered, each
\* once.
C23_ExhaustedFeed ==
    (/\ Ended
     /\ PostSelector \in feed.appears
     /\ run.numPosts > Len(feed.elements)
     /\ trace.passed = NoPass) =>
        /\ run.pc = "returned"
        /\ Len(run.results) = feed.rendered
        /\ Len(trace.items) = feed.rendered
        /\ Range(trace.items) = 1 .. feed.rendered

\* C24: the loop ends by stall detection exactly when three rounds in a row
\* captured nothing: the count of rounds without progress is the number of
\* the latest rounds in a row that added no item (zero after a round that
\* captured one), and with one or two of them the loop has not ended by
\* stall.
C24_StallDetection ==
    /\ (trace.exit = "stall") <=> (trace.zeroRounds = 3)
    /\ trace.exit = "stall" => run.pc = "returned"
    /\ run.roundsWithoutProgress = trace.zeroRounds

\* The loop ended by stall after rounds that had captured items.
C24_Witness ==
    /\ trace.exit = "stall"
    /\ Len(trace.items) >= 2
    /\ run.roundsWithoutProgress = 3

\* The k-th result is the k-th capture: its ordinal is k and its uniqueId
\* is one of the k-th captured item.
InCaptureOrder ==
    /\ Len(run.results) = Len(trace.items)
    /\ \A k \in 1 .. Len(run.results) :
          /\ run.results[k].filePath.ordinal = k
          /\ \E token \in Tokens :
                run.results[k].platformUniqueId =
                    getUniqueId(feed.elements[trace.items[k]], token)

\* C25: the number of captured items never exceeds the target; once the
\* target is reached no further element is processed; a run that ends
\* because the target is reached returns exactly target items, in capture
\* order.
C25_BoundedByTarget ==
    /\ [](/\ run.screenshotCount <= run.numPosts
          /\ Len(trace.items) = run.screenshotCount
          /\ InCaptureOrder
          /\ trace.exit = "target" =>
                run.pc = "returned" /\ Len(run.results) = run.numPosts)
    /\ [][run.screenshotCount >= run.numPosts =>
             /\ trace'.step = NoStep
             /\ run'.position = run.position
             /\ run'.results = run.results]_vars

\* A run returned for the target with elements of the round left over.
C25_Witness ==
    /\ trace.exit = "target"
    /\ run.numPosts = 2
    /\ Len(run.results) = 2
    /\ Len(run.postElements) = 3
    /\ run.position = 3

\* The element of the turn of the loop that is about to run, if any.
AtElement ==
    /\ run.pc = "for"
    /\ run.position <= Len(run.postElements)
    /\ run.screenshotCount < run.numPosts

\* C26: the uniqueIds of the captured items are pairwise distinct; an
\* element whose uniqueId is in the captured-set is skipped: no screenshot,
\* no new result, no progress counted.
C26_DistinctUniqueIds ==
    /\ [](\A j, k \in 1 .. Len(run.results) :
             j # k => run.results[j].platformUniqueId # run.results[k].platformUniqueId)
    /\ [][(/\ AtElement
           /\ \A token \in Tokens :
                 getUniqueId(feed.elements[run.postElements[run.position]], token)
                    \in run.capturedPosts) =>
             /\ trace'.step.outcome \in {"duplicate", "failed"}
             /\ ~trace'.step.screenshot
             /\ run'.results = run.results
             /\ run'.capturedPosts = run.capturedPosts
             /\ run'.screenshotCount = run.screenshotCount
             /\ run'.processedInThisRound = run.processedInThisRound
             /\ trace'.items = trace.items]_vars

\* An element captured in an earlier round was skipped as a duplicate in a
\* round that has captured nothing.
C26_Witness ==
    /\ trace.step.outcome = "duplicate"
    /\ trace.step.item \in Range(trace.items)
    /\ trace.roundStart = Len(trace.items)
    /\ run.processedInThisRound = 0

\* C27: within one run no feed item is captured more than once, however its
\* unique identifier is derived.
C27_NoItemCapturedTwice ==
    \A j, k \in 1 .. Len(trace.items) : j # k => trace.items[j] # trace.items[k]

\* C28: a failure at any step of capturing an element leaves the results,
\* the captured-set and the progress counters as they were, the round goes
\* on with the next element, and the element can still be captured later.
C28_ElementFailureSkipped ==
    [][run.pc = "for" =>
          /\ run'.pc \in {"for", "progress"}
          /\ (trace'.step.outcome = "failed" /\ run'.position # run.position) =>
                /\ run'.pc = "for"
                /\ run'.position = run.position + 1
                /\ run'.results = run.results
                /\ run'.capturedPosts = run.capturedPosts
                /\ run'.screenshotCount = run.screenshotCount
                /\ run'.processedInThisRound = run.processedInThisRound
                /\ run'.roundsWithoutProgress = run.roundsWithoutProgress
                /\ trace'.items = trace.items
                /\ (trace'.step.item \notin Range(trace'.items) =>
                      \A token \in Tokens :
                         getUniqueId(feed.elements[trace'.step.item], token)
                            \notin run'.capturedPosts)]_vars

\* An element whose capture had failed was captured in a later turn.
C28_Witness ==
    /\ trace.step.outcome = "captured"
    /\ trace.passed.outcome = "failed"
    /\ trace.passed.item = trace.step.item

\* The selectors in the order they are waited for.
WaitOrder == <<PostSelector>> \o FallbackSelectors

\* The run is past the wait for the feed.
PastWait == run.pc \notin {"waitForSelector", "fallback"}

\* C29: the run fails fatally, before any round and with nothing captured,
\* exactly when neither the primary selector nor a fallback appears; the
\* fallbacks are waited for after the primary failed, in their order, up to
\* the first that appears.
C29_FeedNotFound ==
    /\ PastWait =>
          ((run.pc = "thrown" /\ trace.exit = "feedNotFound")
              <=> (feed.appears \cap Range(WaitOrder) = {}))
    /\ trace.exit = "feedNotFound" =>
          /\ run.pc = "thrown"
          /\ run.results = <<>> /\ trace.items = <<>>
          /\ run.postElements = <<>> /\ trace.step = NoStep
    /\ Len(trace.waited) <= Len(WaitOrder)
    /\ trace.waited = SubSeq(WaitOrder, 1, Len(trace.waited))
    /\ \A k \in 1 .. (Len(trace.waited) - 1) : trace.waited[k] \notin feed.appears
    /\ PastWait =>
          \/ trace.waited[Len(trace.waited)] \in feed.appears
          \/ Len(trace.waited) = Len(WaitOrder) /\ trace.exit = "feedNotFound"

\* The feed was found by the last fallback selector, after the primary and
\* the first fallback, and the run went into the loop and returned.
C29_Witness ==
    /\ trace.waited = WaitOrder
    /\ feed.appears = {FallbackSelectors[Len(FallbackSelectors)]}
    /\ run.pc = "returned"

\* The feed was found: the last selector waited for appeared.
FeedFound ==
    /\ trace.waited # <<>>
    /\ trace.waited[Len(trace.waited)] \in feed.appears

\* C30: once the feed has been found the run never ends with an error: it
\* returns the items captured so far, in order.
C30_NoErrorOnceFound ==
    FeedFound => (run.pc # "thrown" /\ (run.pc = "returned" => InCaptureOrder))

\* C38: for a non-empty store and pageSize >= 1 the window of
\* getPosts(pageSize, offset) holds the post stored at
\* clamp(currentIndex + offset, 0, total - 1); with offset 0 it holds the
\* post at the pointer.
C38_WindowHoldsTarget ==
    (/\ call.name = "getPosts"
     /\ call.args[1] >= 1
     /\ Len(data[call.inst].posts) > 0) =>
        LET d == data[call.inst]
            total == Len(d.posts)
            target == Clamp(d.currentIndex + call.args[2], 0, total - 1)
        IN  /\ \E k \in 1 .. Len(ret.val.posts) : ret.val.posts[k].id = d.posts[target + 1].id
            /\ d.posts[target + 1] \in Range(ret.val.posts)
            /\ (call.args[2] = 0 /\ d.currentIndex \in 0 .. (total - 1)) =>
                  d.posts[d.currentIndex + 1] \in Range(ret.val.posts)

\* A window of one post at the pointer, in the middle of four posts.
C38_Witness ==
    /\ call.name = "getPosts"
    /\ call.args = <<1, 0>>
    /\ Len(data["A"].posts) = 4
    /\ data["A"].currentIndex = 2
    /\ ret.val.posts = <<data["A"].posts[3]>>

\* C37: no two posts of a store ever have the same id, so an id addresses
\* exactly one post.
C37_UniqueIds ==
    \A i \in live :
        \A j, k \in 1 .. Len(data[i].posts) :
            j # k => data[i].posts[j].id # data[i].posts[k].id

\* C39: constructing a store does not fail whatever the file holds; on a
\* missing or unreadable file the store starts with no posts and pointer 0
\* and writes that empty document; after construction the file exists and
\* holds the store's memory.
C39_ConstructorRecovers ==
    [][IsCall("constructor") =>
          /\ ret'.kind = "void"
          /\ call'.inst \in live'
          /\ file'.kind = "doc"
          /\ ParsedData(file'.doc) = data'[call'.inst]
          /\ file.kind # "doc" =>
                /\ data'[call'.inst].posts = <<>>
                /\ data'[call'.inst].currentIndex = 0
                /\ file'.doc.posts = <<>>
                /\ file'.doc.currentIndex = 0]_vars

\* A second store was constructed empty, and the document is empty, after
\* the document that held the first store's post became unusable.
C39_Witness ==
    /\ call = Call("constructor", "B", <<>>)
    /\ live = {"A", "B"}
    /\ Len(data["A"].posts) = 1
    /\ data["B"] = EmptyData
    /\ file = FileDoc(Stringify(EmptyData))

\* C34: when the primary selector never matched and the feed was found
\* through a fallback selector, the rounds work on the elements matching
\* that fallback: the run does not end for want of elements.
C34_FallbackFeedCaptured ==
    (/\ FeedFound
     /\ PostSelector \notin feed.appears
     /\ Ended) =>
        /\ trace.exit # "noElements"
        /\ run.postElements # <<>>

C36_Terminates == <>Ended

\* A run ended by stall with the whole feed rendered, after it had captured
\* an item and passed over an element.
C36_Witness ==
    /\ Ended
    /\ trace.exit = "stall"
    /\ Len(trace.items) >= 1
    /\ feed.rendered = Len(feed.elements)
    /\ trace.passed # NoPass

\* The files of a platform that were processed, in order.
ProcessedOf(platform) ==
    SelectSeq(trace.files, LAMBDA e : e.platform = platform)

\* C31: an error while capturing a platform is recorded in its errors and
\* every other requested platform with a page is still captured and its
\* posts stored; an error while classifying or storing a file is recorded
\* and every other captured file is still processed.
C31_FailuresIsolated ==
    run.pc = "returned" =>
        /\ Len(run.results.platformResults) = Len(run.platforms)
        /\ Len(trace.captures) = Len(run.platforms)
        /\ \A k \in 1 .. Len(run.platforms) :
              LET platform == run.platforms[k]
                  r == run.results.platformResults[k]
                  capture == trace.captures[k]
                  mine == ProcessedOf(platform)
              IN  /\ r.platform = platform
                  /\ capture.page = (platform \in feed.pages)
                  /\ ~(capture.page /\ capture.outcome.ok) =>
                        r.errors # <<>> /\ r.postsGathered = 0 /\ mine = <<>>
                  /\ (capture.page /\ capture.outcome.ok) =>
                        /\ r.postsGathered = Len(capture.outcome.files)
                        /\ [j \in 1 .. Len(mine) |-> mine[j].file] = capture.outcome.files
                        /\ Len(r.errors) =
                              Cardinality({j \in 1 .. Len(mine) : mine[j].outcome = "failed"})
                        /\ \A j \in 1 .. Len(mine) :
                              mine[j].outcome = "added" =>
                                 \E post \in Range(data["A"].posts) :
                                    /\ post.screenshotPath = mine[j].file.filePath
                                    /\ post.platform = platform

\* The capture of the first platform failed and a post of the second was
\* stored, after the first of its files had failed.
C31_Witness ==
    /\ run.pc = "returned"
    /\ run.platforms = <<Twitter, Linkedin>>
    /\ trace.captures[1].page /\ ~trace.captures[1].outcome.ok
    /\ run.results.platformResults[1].errors = <<"gather">>
    /\ Len(trace.files) = 2
    /\ trace.files[1].outcome = "failed"
    /\ trace.files[2].outcome = "added"
    /\ run.results.platformResults[2].postsAddedToDb = 1
    /\ Len(data["A"].posts) >= 1

\* C32: every stored post was added for a file whose classification named
\* a category, and carries that category; no file classified without a
\* category is in the store; no platform has more posts added than
\* gathered.
C32_OnlyCategorizedStored ==
    /\ \A post \in Range(data["A"].posts) :
          \E e \in Range(trace.files) :
             /\ e.analysis.ok
             /\ e.analysis.categoryName # Null
             /\ post.category = e.analysis.categoryName
             /\ post.description = e.analysis.description
             /\ post.screenshotPath = e.file.filePath
             /\ post.platform = e.platform
    /\ \A e \in Range(trace.files) :
          (e.analysis.ok /\ e.analysis.categoryName = Null) =>
             /\ e.outcome = "uncategorized"
             /\ \A post \in Range(data["A"].posts) : post.screenshotPath # e.file.filePath
    /\ \A k \in 1 .. Len(run.results.platformResults) :
          run.results.platformResults[k].postsAddedToDb
              <= run.results.platformResults[k].postsGathered
    /\ run.platformResult.postsAddedToDb <= run.platformResult.postsGathered
    /\ run.results.totalPostsAddedToDb <= run.results.totalPostsGathered

\* A platform gathered two files: the one without a category was skipped
\* and the other was stored with its category.
C32_Witness ==
    /\ run.pc = "returned"
    /\ Len(run.platforms) = 1
    /\ run.results.platformResults[1].postsGathered = 2
    /\ run.results.platformResults[1].postsAddedToDb = 1
    /\ trace.files[1].outcome = "uncategorized"
    /\ trace.files[2].outcome = "added"
    /\ Len(data["A"].posts) = 1
    /\ data["A"].posts[1].category = <<"d">>

\* C33: through the rating endpoint a stored rating only becomes 1, -1 or
\* null: a request with another rating value or with none is answered 400,
\* a request for an unknown id 404, both leaving the store as it was.
C33_OnlyThumbsStored ==
    /\ [](\A post \in Range(data["A"].posts) : post.rating \in {Num(1), Num(-1), Null})
    /\ [][IsCall("putRating") =>
             LET rating == call'.args[2]
                 known == \E post \in Range(data["A"].posts) : post.id = call'.args[1]
             IN  IF rating \notin {JNumber(1), JNumber(-1), JNull}
                 THEN ret'.val = 400 /\ data' = data /\ file' = file
                 ELSE ~known => (ret'.val = 404 /\ data' = data /\ file' = file)]_vars

====
